---- MODULE Spec2Model ----
(***************************************************************************)
(* Model of the ts_agent trading pipeline.                                 *)
(*                                                                         *)
(*   Spec     the cycle orchestrator: the scheduler of index.ts            *)
(*            (executeCycle, the isRunning flag) around runTradingCycle    *)
(*            of tradingEngine.ts, the model store and the prediction      *)
(*            repository of db/postgres.ts.  FairSpec adds the fairness    *)
(*            of the event loop: an awaited promise eventually settles.    *)
(*   SpecAgg  the bar aggregator buildBarsFromTrades of data/barBuilder.ts *)
(*            applied to bounded trade sequences.                          *)
(*   SpecRisk risk/riskMap.ts (applyRiskMap, computeForecastVolatility)    *)
(*            applied to bounded inputs and as the risk stage of a cycle.  *)
(*   SpecFeat the feature extractor (buildFeatureWindows, normalizeWindow) *)
(*            applied to bounded bar sequences and matrices.               *)
(*   SpecFetch  KucoinClient.fetchRecentTrades against an endpoint that    *)
(*            answers with any batch within the limit; FairSpecFetch adds  *)
(*            that every request is answered.                              *)
(*   SpecHub  the websocket hub of the Go API (hub.go, ws_client.go) with  *)
(*            the goroutines of two clients, the notification listener and *)
(*            Shutdown.                                                    *)
(*                                                                         *)
(* Numbers that are floats in the program (probability, exposure,          *)
(* volatility, the risk configuration) are fixed-point integers in units   *)
(* of 1e-4.  Array indices keep the program's 0-based numbering; the       *)
(* operator At reads a TLA+ sequence at a 0-based index.                   *)
(***************************************************************************)
EXTENDS Integers, Sequences, FiniteSets, TLC

VARIABLES
  isRunning,      \* index.ts: let isRunning
  cycle,          \* index.ts: let cycle
  inv,            \* the invocations of executeCycle: position and locals
  nextInv,        \* number of executeCycle invocations made so far
  repository,     \* index.ts: whether a PredictionRepository was initialised
  config,         \* index.ts: the TradingEngineConfig built at start
  store,          \* the model persisted under models/<symbol>/ (<<>> if none)
  predictions,    \* rows of the predictions table (identified by cycle number)
  notifications,  \* payloads published on the predictions channel
  trades,         \* SpecAgg: the trade sequence handed to buildBarsFromTrades
  intervalMs,     \* SpecAgg: the intervalMs argument
  maxBarsArg,     \* SpecAgg: the maxBars argument (None when omitted)
  aggBars,        \* SpecAgg: the bars returned
  aggDone,        \* SpecAgg: whether buildBarsFromTrades has returned
  riskArgs,       \* SpecRisk: the arguments of the risk function applied
  riskResult,     \* SpecRisk: what it returned (<<>> before the call)
  featArgs,       \* SpecFeat: the arguments of the feature function applied
  featResult,     \* SpecFeat: what it returned (<<>> before the call)
  fetch,          \* SpecFetch: the fetchRecentTrades call: position and locals
  client,         \* SpecHub: every WSClient: its fields and its goroutines
  hubClients,     \* SpecHub: Hub.clients
  broadcastCh,    \* SpecHub: Hub.broadcast, the buffered channel
  nextPayload,    \* SpecHub: number of Hub.Broadcast calls made so far
  shutdown        \* SpecHub: whether Hub.Shutdown has run

vars == <<isRunning, cycle, inv, nextInv, repository, config, store,
          predictions, notifications, trades, intervalMs, maxBarsArg, aggBars,
          aggDone, riskArgs, riskResult, featArgs, featResult, fetch, client,
          hubClients, broadcastCh, nextPayload, shutdown>>

cycleVars == <<isRunning, cycle, inv, nextInv, repository, config, store,
               predictions, notifications>>

aggVars == <<trades, intervalMs, maxBarsArg, aggBars, aggDone>>

riskVars == <<riskArgs, riskResult>>

featVars == <<featArgs, featResult>>

fetchVars == <<fetch>>

hubVars == <<client, hubClients, broadcastCh, nextPayload, shutdown>>

-----------------------------------------------------------------------------
(* Bounds of the model *)

\* executeCycle invocations (the immediate run plus interval ticks)
MaxTriggers == 3

\* the longest bar sequence a cycle aggregates
MaxBars == 3

\* the longest trade sequence given to the aggregator
MaxTrades == 3

-----------------------------------------------------------------------------
(* Program constants *)

FEATURE_COUNT == 22

\* the feature count of the earlier 12-feature extractor, whose models may
\* still be in the store
LEGACY_FEATURE_COUNT == 12

\* risk configuration defaults, in units of 1e-4
NEUTRAL_ZONE == 500

VOLATILITY_TARGET == 150

VOLATILITY_FLOOR == 1

MAX_EXPOSURE == 5000

\* 1.0 in fixed point
ONE == 10000

\* defaultDecision: probability 0.5
HALF == 5000

\* config.volatilityLookback default
VOLATILITY_LOOKBACK == 64

-----------------------------------------------------------------------------
(* Input domains *)

\* config.featureWindowSize values explored (the program's default is 64)
WindowSizes == {1, 2}

\* close-price series of the bars a cycle aggregates: rising (1, 2, 3, ...)
\* or alternating (2, 1, 2, ...)
ClosePatterns == {"rising", "zigzag"}

CloseAt(pattern, k) == IF pattern = "rising" THEN k ELSE 1 + (k % 2)

\* probabilities the model's predict can return (1e-4 units)
Probabilities == {5100, 9000}

\* trades given to the aggregator: timestamps (ms), prices, and (size, side).
\* With intervalMs = 2 the times 0 and 1 share a bucket, 2 lies exactly on its
\* end, and 9 follows several empty buckets; with intervalMs = 3 the times 0, 1
\* and 2 share a bucket and 9 lies exactly on a bucket start.
TradeTimes == {0, 1, 2, 9}

TradePrices == {1, 2}

\* size (in units of 1e-9) and side
TradeKinds == {<<5, "buy">>, <<15, "sell">>}

Trades ==
  {[time |-> t, price |-> p, size |-> k[1], side |-> k[2]] :
     t \in TradeTimes, p \in TradePrices, k \in TradeKinds}

\* intervalMs arguments
Intervals == {2, 3}

\* maxBars arguments: omitted (None), or a number given by the caller
MaxBarsGiven == {0, 1, 2}

-----------------------------------------------------------------------------
(* Helpers *)

At(s, i) == s[i + 1]

Min(a, b) == IF a < b THEN a ELSE b

Max(a, b) == IF a > b THEN a ELSE b

Abs(a) == IF a < 0 THEN -a ELSE a

\* the greatest common divisor, to reduce a quotient before it is scaled
RECURSIVE GCD(_, _)
GCD(a, b) == IF b = 0 THEN a ELSE GCD(b, a % b)

\* all sequences over S of length 0..n
SeqsUpTo(S, n) == UNION {[1..k -> S] : k \in 0..n}

Some(x) == <<x>>

None == <<>>

\* the websocket clients that connect
Clients == {1, 2}

\* a WSClient before HandleWS has made it, and its goroutines not started
\*   conn        "none" before NewWSClient, then "open"; "nil" once Close
\*               has set the field to nil
\*   once        whether closeOnce has run
\*   doneClosed  number of times close(c.done) has been executed
\*   connCloses  number of times conn.Close() has been called
\*   run         position of HandleWS and then of Run
\*   keepAlive   whether the keepAlive goroutine is running
\*   closers     number of `go c.Close()` goroutines started and not yet run
\*   pings       number of ping frames the running keepAlive has written,
\*               modulo 2
\*   received    the payloads written to the connection by Send
IdleClient ==
  [conn       |-> "none",
   once       |-> FALSE,
   doneClosed |-> 0,
   connCloses |-> 0,
   run        |-> "none",
   keepAlive  |-> FALSE,
   closers    |-> 0,
   pings      |-> 0,
   received   |-> <<>>]

\* hub.New(): no client, an empty broadcast channel
HubConstructed ==
  /\ client = [c \in Clients |-> IdleClient]
  /\ hubClients = {}
  /\ broadcastCh = <<>>
  /\ nextPayload = 0
  /\ shutdown = FALSE

\* fetchRecentTrades before it is called: no local is bound yet
IdleFetch ==
  [pc            |-> "idle",
   desiredCount  |-> 0,
   collected     |-> <<>>,
   seenSequences |-> {},
   remaining     |-> 0,
   endAt         |-> None,
   requestLimit  |-> 0,
   request       |-> None,
   skipped       |-> FALSE,
   result        |-> None,
   error         |-> ""]

MaxBarsArgs == {None} \cup {Some(n) : n \in MaxBarsGiven}

-----------------------------------------------------------------------------
(* featureExtractor: buildFeatureWindows.  A bar is a record with a close  *)
(* field; a window records the bar indices it covers (first..last), its    *)
(* shape and the label data.                                               *)

\* next close >= last close instead of next close > last close
labelOfInclusive(nextClose, lastClose) == IF nextClose >= lastClose THEN 1 ELSE 0

\* const label = nextClose > lastClose ? 1 : 0
labelOf(nextClose, lastClose) == IF nextClose > lastClose THEN 1 ELSE 0

FeatureWindowAt(bars, windowSize, idx) ==
  LET nextClose == At(bars, idx + 1).close
      lastClose == At(bars, idx).close
  IN [first     |-> idx - windowSize + 1,
      last      |-> idx,
      rows      |-> windowSize,
      cols      |-> FEATURE_COUNT,
      label     |-> labelOf(nextClose, lastClose),
      lastClose |-> lastClose,
      nextClose |-> nextClose]

\* for (let idx = windowSize - 1; idx < bars.length - 1; idx += 1)
buildFeatureWindows(bars, windowSize) ==
  IF Len(bars) <= windowSize
    THEN <<>>
    ELSE [k \in 1..(Len(bars) - windowSize) |->
            FeatureWindowAt(bars, windowSize, windowSize - 1 + (k - 1))]

-----------------------------------------------------------------------------
(* riskMap.ts *)

\* the quotient a / b truncated toward zero, the rounding of the fixed-point
\* arithmetic (b # 0)
Quot(a, b) ==
  LET q == Abs(a) \div Abs(b)
  IN IF (a < 0) = (b < 0) THEN q ELSE -q

\* Math.sqrt on fixed-point squares: the largest r with r * r <= n, searched
\* between lo and hi
RECURSIVE SqrtBetween(_, _, _)
SqrtBetween(n, lo, hi) ==
  IF lo >= hi
    THEN lo
    ELSE LET mid == (lo + hi + 1) \div 2
         IN IF mid * mid <= n
              THEN SqrtBetween(n, mid, hi)
              ELSE SqrtBetween(n, lo, mid - 1)

Sqrt(n) == SqrtBetween(n, 0, 46340)

\* Math.log(num / den) in units of 1e-4, by the series
\* 2 * (z + z^3/3 + z^5/5 + z^7/7) with z = (num - den) / (num + den);
\* num and den are small positive integers
Ln(num, den) ==
  LET d == num - den
      t == num + den
  IN Quot(2 * ONE * d, t)
       + Quot(2 * ONE * d * d * d, 3 * t * t * t)
       + Quot(2 * ONE * d * d * d * d * d, 5 * t * t * t * t * t)
       + Quot(2 * ONE * d * d * d * d * d * d * d, 7 * t * t * t * t * t * t * t)

\* the results of a division by zero, kept outside the fixed-point range:
\* x / 0 is +-Infinity and 0 / 0 is NaN
Infinity == 2 ^ 29

NaN == -(2 ^ 30)

\* Math.min and Math.max return NaN when an argument is NaN
MathMin(a, b) == IF a = NaN \/ b = NaN THEN NaN ELSE Min(a, b)

MathMax(a, b) == IF a = NaN \/ b = NaN THEN NaN ELSE Max(a, b)

\* the lower bound left out: Math.min(maxExposure, scaledSignal)
ClampUpperOnly(x, lo, hi) == MathMin(hi, x)

\* Math.max(-maxExposure, Math.min(maxExposure, scaledSignal))
Clamp(x, lo, hi) == MathMax(lo, MathMin(hi, x))

\* the signal scaled by volatilityTarget / vol without the cap at 1
ScaledSignalUncapped(rawSignal, vol, target) ==
  IF vol = 0
    THEN IF target = 0
           THEN NaN
           ELSE IF rawSignal = 0
                  THEN NaN
                  ELSE IF (rawSignal > 0) = (target > 0) THEN Infinity ELSE -Infinity
    ELSE Quot(rawSignal * target, vol)

\* rawSignal * Math.min(volatilityTarget / vol, 1), truncated to 1e-4 units.
\* With vol = 0 the quotient is NaN for a zero target, +Infinity for a positive
\* one (the scale is then 1) and -Infinity for a negative one.
ScaledSignal(rawSignal, vol, target) ==
  IF vol = 0
    THEN IF target = 0
           THEN NaN
           ELSE IF target > 0
                  THEN rawSignal
                  ELSE IF rawSignal = 0
                         THEN NaN
                         ELSE IF rawSignal > 0 THEN -Infinity ELSE Infinity
    ELSE IF (vol > 0 /\ target >= vol) \/ (vol < 0 /\ target <= vol)
           THEN rawSignal
           ELSE Quot(rawSignal * target, vol)

defaultConfig ==
  [neutralZone      |-> NEUTRAL_ZONE,
   volatilityTarget |-> VOLATILITY_TARGET,
   volatilityFloor  |-> VOLATILITY_FLOOR,
   maxExposure      |-> MAX_EXPOSURE]

\* { ...defaultConfig, ...config }: a field the caller leaves out keeps its default
Merged(cfg) ==
  [f \in DOMAIN defaultConfig |->
     IF f \in DOMAIN cfg THEN cfg[f] ELSE defaultConfig[f]]

\* the deadband taken to include its edge: <= instead of <
InDeadbandInclusive(rawSignal, neutralZone) == Abs(rawSignal) <= neutralZone

\* if (Math.abs(rawSignal) < merged.neutralZone) return 0
InDeadband(rawSignal, neutralZone) == Abs(rawSignal) < neutralZone

applyRiskMap(probability, forecastVolatility, cfg) ==
  LET merged      == Merged(cfg)
      clippedProb == Min(Max(probability, 0), ONE)
      rawSignal   == clippedProb * 2 - ONE
      vol         == Max(forecastVolatility, merged.volatilityFloor)
  IN IF InDeadband(rawSignal, merged.neutralZone)
       THEN 0
       ELSE Clamp(ScaledSignal(rawSignal, vol, merged.volatilityTarget),
                  -merged.maxExposure, merged.maxExposure)

\* bars.map: 0 for the first bar and when a close is not positive, else
\* Math.log(bar.close / prev.close)
computeReturns(bars) ==
  [k \in 1..Len(bars) |->
     IF k = 1
       THEN 0
       ELSE IF bars[k - 1].close <= 0 \/ bars[k].close <= 0
              THEN 0
              ELSE Ln(bars[k].close, bars[k - 1].close)]

RECURSIVE SumSeq(_)
SumSeq(s) == IF s = <<>> THEN 0 ELSE s[1] + SumSeq(Tail(s))

\* returns.slice(start): the entries from 0-based index start on
SliceFrom(s, start) ==
  IF start >= Len(s) THEN <<>> ELSE SubSeq(s, start + 1, Len(s))

\* the sample standard deviation of the trailing `lookback` returns, or the
\* volatility target of the module's defaultConfig when there is none
computeForecastVolatility(returns, lookback) ==
  IF Len(returns) = 0
    THEN defaultConfig.volatilityTarget
    ELSE LET start == Max(0, Len(returns) - lookback)
             slice == SliceFrom(returns, start)
             n     == Len(slice)
             mean  == Quot(SumSeq(slice), n)
             variance ==
               Quot(SumSeq([k \in 1..n |-> (slice[k] - mean) * (slice[k] - mean)]),
                    Max(n - 1, 1))
         IN IF n = 0
              THEN defaultConfig.volatilityTarget
              ELSE Sqrt(Max(variance, 0))

-----------------------------------------------------------------------------
(* tradingEngine.ts: the synchronous pieces of runTradingCycle *)

\* the neutral decision carrying the volatility target instead of 0
defaultDecisionTargetVol(barsCount) ==
  [probability        |-> HALF,
   exposure           |-> 0,
   forecastVolatility |-> VOLATILITY_TARGET,
   latestWindow       |-> None,
   barsCount          |-> barsCount,
   trainedSamples     |-> 0]

defaultDecision(barsCount) ==
  [probability        |-> HALF,
   exposure           |-> 0,
   forecastVolatility |-> 0,
   latestWindow       |-> None,
   barsCount          |-> barsCount,
   trainedSamples     |-> 0]

\* if (bars.length <= featureWindowSize) return defaultDecision(bars.length)
InsufficientBars(bars, featureWindowSize) == Len(bars) <= featureWindowSize

\* every window used for training: slice(0) instead of slice(0, -1)
trainingSamplesAll(featureWindows) == featureWindows

\* featureWindows.slice(0, -1)
trainingSamples(featureWindows) ==
  IF Len(featureWindows) = 0
    THEN <<>>
    ELSE SubSeq(featureWindows, 1, Len(featureWindows) - 1)

\* the oldest window taken for inference: at(0) instead of at(-1)
oldestWindow(featureWindows) ==
  IF Len(featureWindows) = 0
    THEN None
    ELSE Some(featureWindows[1])

\* featureWindows.at(-1) ?? null
latestWindow(featureWindows) ==
  IF Len(featureWindows) = 0
    THEN None
    ELSE Some(featureWindows[Len(featureWindows)])

\* the feature count left out of the comparison
ShapeMatchesRowsOnly(loaded, effectiveWindowSize, featureCount) ==
  loaded.windowSize = effectiveWindowSize

\* loadedWindowSize === effectiveWindowSize && loadedFeatureCount === featureCount
ShapeMatches(loaded, effectiveWindowSize, featureCount) ==
  /\ loaded.windowSize = effectiveWindowSize
  /\ loaded.featureCount = featureCount

\* buildTcnModel({ windowSize: effectiveWindowSize, featureCount })
buildTcnModel(effectiveWindowSize, featureCount) ==
  [windowSize |-> effectiveWindowSize, featureCount |-> featureCount]

\* a freshly built model saved only when it was trained
ShouldSaveTrainedOnly(trainedSamples, loadedFromDisk) == trainedSamples > 0

\* if (trainedSamples > 0 || !loadedFromDisk)
ShouldSave(trainedSamples, loadedFromDisk) ==
  trainedSamples > 0 \/ ~loadedFromDisk

\* index.ts buildPredictionPayload: windowShape from latestWindow
buildPredictionPayload(result) ==
  [probability        |-> result.probability,
   exposure           |-> result.exposure,
   forecastVolatility |-> result.forecastVolatility,
   barsCount          |-> result.barsCount,
   trainedSamples     |-> result.trainedSamples,
   windowShape        |-> IF result.latestWindow = None
                            THEN None
                            ELSE Some([rows |-> result.latestWindow[1].rows,
                                       cols |-> result.latestWindow[1].cols])]


-----------------------------------------------------------------------------
(* index.ts: executeCycle.  An invocation is at one of its await points:   *)
(*   idle      not invoked yet                                             *)
(*   skipLog   await writeLog("Previous cycle still running...")           *)
(*   logStart  await writeLog(start), await writeLog(configuration)        *)
(*   fetch     await client.fetchRecentTrades                              *)
(*   mkdir     await mkdir(modelStorePath)                                 *)
(*   resolve   await pathExists, await tf.loadLayersModel                  *)
(*   train     await trainModel                                            *)
(*   predict   await prediction.data()                                     *)
(*   save      await mkdir(modelDir), await model.save                     *)
(*   report    await writeLog(summary), await writeLog(payload)            *)
(*   insert    await pool.query(INSERT_PREDICTION_SQL)                     *)
(*   notify    await pool.query(NOTIFY_SQL)                                *)
(*   catch     await writeLog("Cycle failed")                              *)
(*   done      returned                                                    *)
(* writeLog is taken to resolve; every other awaited call may reject.      *)

Invocations == 1..MaxTriggers

RunningPcs == {"logStart", "fetch", "mkdir", "resolve", "train", "predict",
               "save", "report", "insert", "notify", "catch"}

IdleInv ==
  [pc                |-> "idle",
   cycleNo           |-> 0,
   fetched           |-> FALSE,
   bars              |-> <<>>,
   model             |-> None,
   loadedFromDisk    |-> FALSE,
   loadFailed        |-> FALSE,
   trainedSamples    |-> 0,
   trainedOn         |-> <<>>,
   inferredOn        |-> None,
   computed          |-> None,
   result            |-> None,
   saveAttempted     |-> FALSE,
   saved             |-> FALSE,
   reported          |-> None,
   failLogged        |-> FALSE,
   persistFailLogged |-> FALSE,
   outcome           |-> "none"]

\* the locals of a returned invocation are dropped when the next one is
\* made; its cycle number stays on record
Forgotten(rec) ==
  [IdleInv EXCEPT !.pc = "done", !.cycleNo = rec.cycleNo]

StoredModels ==
  {None} \cup {Some(buildTcnModel(w, f)) :
                 w \in WindowSizes, f \in {FEATURE_COUNT, LEGACY_FEATURE_COUNT}}

BarSeqs ==
  {[k \in 1..n |-> [close |-> CloseAt(p, k)]] : n \in 0..MaxBars, p \in ClosePatterns}

InitCycle ==
  /\ isRunning = FALSE
  /\ cycle = 0
  /\ inv = [i \in Invocations |-> IdleInv]
  /\ nextInv = 0
  /\ repository \in BOOLEAN
  /\ config \in {[featureWindowSize |-> w, risk |-> defaultConfig] : w \in WindowSizes}
  /\ store \in StoredModels
  /\ predictions = {}
  /\ notifications = {}

\* finally { isRunning = false }
Finally(i, rec) ==
  /\ isRunning' = FALSE
  /\ inv' = [inv EXCEPT ![i] = [rec EXCEPT !.pc = "done"]]

\* the guard left out: every tick starts a cycle
SkipsIntervalNever == FALSE

\* if (isRunning) { await writeLog(...); return; }
SkipsInterval == isRunning

\* start() awaits the first executeCycle before it installs the interval timer
Trigger ==
  /\ nextInv < MaxTriggers
  /\ nextInv = 0 \/ inv[1].pc = "done"
  /\ LET i == nextInv + 1
         kept == [j \in Invocations |->
                    IF inv[j].pc = "done" THEN Forgotten(inv[j]) ELSE inv[j]]
     IN /\ nextInv' = i
        /\ IF SkipsInterval
             THEN /\ inv' = [kept EXCEPT ![i] = [IdleInv EXCEPT !.pc = "skipLog"]]
                  /\ UNCHANGED <<isRunning, cycle>>
             ELSE /\ isRunning' = TRUE
                  /\ cycle' = cycle + 1
                  /\ inv' = [kept EXCEPT ![i] = [IdleInv EXCEPT !.pc = "logStart",
                                                               !.cycleNo = cycle + 1]]
  /\ UNCHANGED <<repository, config, store, predictions, notifications, aggVars, riskVars, featVars, fetchVars, hubVars>>

\* the skipped invocation returns: it is outside the try/finally
SkipReturn(i) ==
  /\ inv[i].pc = "skipLog"
  /\ inv' = [inv EXCEPT ![i] = [@ EXCEPT !.pc = "done", !.outcome = "skipped"]]
  /\ UNCHANGED <<isRunning, cycle, nextInv, repository, config, store,
                 predictions, notifications, aggVars, riskVars, featVars, fetchVars, hubVars>>

LogStart(i) ==
  /\ inv[i].pc = "logStart"
  /\ inv' = [inv EXCEPT ![i] = [@ EXCEPT !.pc = "fetch"]]
  /\ UNCHANGED <<isRunning, cycle, nextInv, repository, config, store,
                 predictions, notifications, aggVars, riskVars, featVars, fetchVars, hubVars>>

\* a rejected await inside the try block lands in the catch handler
Throw(i) ==
  inv' = [inv EXCEPT ![i] = [@ EXCEPT !.pc = "catch"]]

\* runTradingCycle returns `decision`; executeCycle goes on to report it
Return(i, rec, decision) ==
  inv' = [inv EXCEPT ![i] = [rec EXCEPT !.pc = "report", !.result = Some(decision)]]

\* a short-circuit that also discards the stored model
FetchDiscardingStore(i) ==
  /\ inv[i].pc = "fetch"
  /\ \/ Throw(i) /\ UNCHANGED store
     \/ \E bars \in BarSeqs :
          LET rec == [inv[i] EXCEPT !.bars = bars, !.fetched = TRUE]
              featureWindows == buildFeatureWindows(bars, config.featureWindowSize)
          IN IF InsufficientBars(bars, config.featureWindowSize)
               THEN Return(i, rec, defaultDecision(Len(bars))) /\ store' = None
               ELSE IF Len(featureWindows) = 0 \/ latestWindow(featureWindows) = None
                      THEN Return(i, rec, defaultDecision(Len(bars))) /\ store' = None
                      ELSE /\ inv' = [inv EXCEPT ![i] = [rec EXCEPT !.pc = "mkdir"]]
                           /\ UNCHANGED store
  /\ UNCHANGED <<isRunning, cycle, nextInv, repository, config,
                 predictions, notifications, aggVars, riskVars, featVars, fetchVars, hubVars>>

\* tradingEngine.ts: fetch, aggregate, short-circuit or build the windows
Fetch(i) ==
  /\ inv[i].pc = "fetch"
  /\ \/ Throw(i)
     \/ \E bars \in BarSeqs :
          LET rec == [inv[i] EXCEPT !.bars = bars, !.fetched = TRUE]
              featureWindows == buildFeatureWindows(bars, config.featureWindowSize)
          IN IF InsufficientBars(bars, config.featureWindowSize)
               THEN Return(i, rec, defaultDecision(Len(bars)))
               ELSE IF Len(featureWindows) = 0 \/ latestWindow(featureWindows) = None
                      THEN Return(i, rec, defaultDecision(Len(bars)))
                      ELSE inv' = [inv EXCEPT ![i] = [rec EXCEPT !.pc = "mkdir"]]
  /\ UNCHANGED <<isRunning, cycle, nextInv, repository, config, store,
                 predictions, notifications, aggVars, riskVars, featVars, fetchVars, hubVars>>

MkStoreDir(i) ==
  /\ inv[i].pc = "mkdir"
  /\ \/ Throw(i)
     \/ inv' = [inv EXCEPT ![i] = [@ EXCEPT !.pc = "resolve"]]
  /\ UNCHANGED <<isRunning, cycle, nextInv, repository, config, store,
                 predictions, notifications, aggVars, riskVars, featVars, fetchVars, hubVars>>

\* the windows of invocation i, recomputed from its bars
WindowsOf(rec) == buildFeatureWindows(rec.bars, config.featureWindowSize)

\* after the model is resolved: tensorsFromWindows and trainModel, or
\* straight to predict when there is no training sample
AfterResolve(i, rec) ==
  LET samples == trainingSamples(WindowsOf(rec))
  IN IF Len(samples) > 0
       THEN inv' = [inv EXCEPT ![i] = [rec EXCEPT !.pc = "train",
                                                  !.trainedSamples = Len(samples),
                                                  !.trainedOn = samples]]
       ELSE inv' = [inv EXCEPT ![i] = [rec EXCEPT !.pc = "predict"]]

\* tradingEngine.ts: reuse the stored model or build a fresh one; a rejected
\* tf.loadLayersModel is caught and a fresh model is built
ResolveModel(i) ==
  /\ inv[i].pc = "resolve"
  /\ LET effectiveWindowSize == latestWindow(WindowsOf(inv[i]))[1].rows
         featureCount == latestWindow(WindowsOf(inv[i]))[1].cols
         fresh == [inv[i] EXCEPT !.model = Some(buildTcnModel(effectiveWindowSize,
                                                              featureCount)),
                                 !.loadedFromDisk = FALSE]
     IN \/ /\ store = None
           /\ AfterResolve(i, fresh)
        \/ /\ store # None
           /\ \/ AfterResolve(i, [fresh EXCEPT !.loadFailed = TRUE])
              \/ IF ShapeMatches(store[1], effectiveWindowSize, featureCount)
                   THEN AfterResolve(i, [inv[i] EXCEPT !.model = store,
                                                       !.loadedFromDisk = TRUE])
                   ELSE AfterResolve(i, fresh)
  /\ UNCHANGED <<isRunning, cycle, nextInv, repository, config, store,
                 predictions, notifications, aggVars, riskVars, featVars, fetchVars, hubVars>>

Train(i) ==
  /\ inv[i].pc = "train"
  /\ \/ Throw(i)
     \/ inv' = [inv EXCEPT ![i] = [@ EXCEPT !.pc = "predict"]]
  /\ UNCHANGED <<isRunning, cycle, nextInv, repository, config, store,
                 predictions, notifications, aggVars, riskVars, featVars, fetchVars, hubVars>>

\* tradingEngine.ts: predict on latestWindow, forecast volatility, risk map;
\* then either the save step or the return
Predict(i) ==
  /\ inv[i].pc = "predict"
  /\ \/ Throw(i)
     \/ \E probability \in Probabilities :
          LET returns == computeReturns(inv[i].bars)
              forecastVolatility ==
                computeForecastVolatility(returns,
                                          Min(VOLATILITY_LOOKBACK, Len(inv[i].bars)))
              window == latestWindow(WindowsOf(inv[i]))
              decision == [probability        |-> probability,
                           exposure           |-> applyRiskMap(probability,
                                                               forecastVolatility,
                                                               config.risk),
                           forecastVolatility |-> forecastVolatility,
                           latestWindow       |-> window,
                           barsCount          |-> Len(inv[i].bars),
                           trainedSamples     |-> inv[i].trainedSamples]
              rec == [inv[i] EXCEPT !.inferredOn = window,
                                    !.computed = Some(decision)]
          IN IF ShouldSave(inv[i].trainedSamples, inv[i].loadedFromDisk)
               THEN inv' = [inv EXCEPT ![i] = [rec EXCEPT !.pc = "save",
                                                          !.saveAttempted = TRUE]]
               ELSE Return(i, rec, decision)
  /\ UNCHANGED <<isRunning, cycle, nextInv, repository, config, store,
                 predictions, notifications, aggVars, riskVars, featVars, fetchVars, hubVars>>

\* a save step that returns without writing the model
SaveModelNotWritten(i) ==
  /\ inv[i].pc = "save"
  /\ \/ Throw(i)
     \/ Return(i, [inv[i] EXCEPT !.saved = TRUE], inv[i].computed[1])
  /\ UNCHANGED <<isRunning, cycle, nextInv, repository, config, store,
                 predictions, notifications, aggVars, riskVars, featVars, fetchVars, hubVars>>

\* tradingEngine.ts: await mkdir(modelDir); await model.save(...) -- not
\* inside any try block
SaveModel(i) ==
  /\ inv[i].pc = "save"
  /\ \/ /\ Throw(i)
        /\ UNCHANGED store
     \/ /\ store' = inv[i].model
        /\ Return(i, [inv[i] EXCEPT !.saved = TRUE], inv[i].computed[1])
  /\ UNCHANGED <<isRunning, cycle, nextInv, repository, config,
                 predictions, notifications, aggVars, riskVars, featVars, fetchVars, hubVars>>

\* index.ts: log the summary and the payload, then persist if configured
Report(i) ==
  /\ inv[i].pc = "report"
  /\ LET payload == buildPredictionPayload(inv[i].result[1])
         rec == [inv[i] EXCEPT !.reported = Some(payload), !.outcome = "completed"]
     IN IF repository
          THEN /\ inv' = [inv EXCEPT ![i] = [rec EXCEPT !.pc = "insert"]]
               /\ UNCHANGED isRunning
          ELSE Finally(i, rec)
  /\ UNCHANGED <<cycle, nextInv, repository, config, store,
                 predictions, notifications, aggVars, riskVars, featVars, fetchVars, hubVars>>

\* the notification published before the outcome of the INSERT is known
InsertPredictionNotifyingFirst(i) ==
  /\ inv[i].pc = "insert"
  /\ notifications' = notifications \cup {inv[i].cycleNo}
  /\ \/ /\ Finally(i, [inv[i] EXCEPT !.persistFailLogged = TRUE])
        /\ UNCHANGED predictions
     \/ /\ predictions' = predictions \cup {inv[i].cycleNo}
        /\ Finally(i, inv[i])
  /\ UNCHANGED <<cycle, nextInv, repository, config, store,
                 aggVars, riskVars, featVars, fetchVars, hubVars>>

\* postgres.ts savePrediction: the INSERT; its rejection propagates to
\* executeCycle's inner catch, which logs it
InsertPrediction(i) ==
  /\ inv[i].pc = "insert"
  /\ \/ /\ Finally(i, [inv[i] EXCEPT !.persistFailLogged = TRUE])
        /\ UNCHANGED predictions
     \/ /\ predictions' = predictions \cup {inv[i].cycleNo}
        /\ inv' = [inv EXCEPT ![i] = [@ EXCEPT !.pc = "notify"]]
        /\ UNCHANGED isRunning
  /\ UNCHANGED <<cycle, nextInv, repository, config, store,
                 notifications, aggVars, riskVars, featVars, fetchVars, hubVars>>

\* postgres.ts savePrediction: pg_notify inside its own try/catch
Notify(i) ==
  /\ inv[i].pc = "notify"
  /\ \/ UNCHANGED notifications
     \/ notifications' = notifications \cup {inv[i].cycleNo}
  /\ Finally(i, inv[i])
  /\ UNCHANGED <<cycle, nextInv, repository, config, store,
                 predictions, aggVars, riskVars, featVars, fetchVars, hubVars>>

\* the flag cleared on the success path only, with no finally block
CatchHandlerNoFinally(i) ==
  /\ inv[i].pc = "catch"
  /\ inv' = [inv EXCEPT ![i] = [@ EXCEPT !.pc = "done", !.failLogged = TRUE,
                                         !.outcome = "failed"]]
  /\ UNCHANGED <<isRunning, cycle, nextInv, repository, config, store,
                 predictions, notifications, aggVars, riskVars, featVars, fetchVars, hubVars>>

\* index.ts: catch (error) { await writeLog("Cycle failed") } finally {...}
CatchHandler(i) ==
  /\ inv[i].pc = "catch"
  /\ Finally(i, [inv[i] EXCEPT !.failLogged = TRUE, !.outcome = "failed"])
  /\ UNCHANGED <<cycle, nextInv, repository, config, store,
                 predictions, notifications, aggVars, riskVars, featVars, fetchVars, hubVars>>

Step(i) ==
  \/ SkipReturn(i)
  \/ LogStart(i)
  \/ Fetch(i)
  \/ MkStoreDir(i)
  \/ ResolveModel(i)
  \/ Train(i)
  \/ Predict(i)
  \/ SaveModel(i)
  \/ Report(i)
  \/ InsertPrediction(i)
  \/ Notify(i)
  \/ CatchHandler(i)

Next ==
  \/ Trigger
  \/ \E i \in Invocations : Step(i)

Init ==
  /\ InitCycle
  /\ trades = <<>>
  /\ intervalMs = 1
  /\ maxBarsArg = None
  /\ aggBars = <<>>
  /\ aggDone = FALSE
  /\ riskArgs = <<>>
  /\ riskResult = <<>>
  /\ featArgs = <<>>
  /\ featResult = <<>>
  /\ fetch = IdleFetch
  /\ HubConstructed

Spec == Init /\ [][Next]_vars

\* the event loop: every awaited promise settles, so some invocation that can
\* advance does (weaker than fairness for each invocation, which the loop
\* also gives)
AnyStep == \E i \in Invocations : Step(i)

\* the liveness runs start with a repository, window size 1 and either no
\* stored model or one left by the 12-feature extractor
InitFair ==
  /\ Init
  /\ repository
  /\ config.featureWindowSize = 1
  /\ store \in {None, Some(buildTcnModel(1, LEGACY_FEATURE_COUNT))}

FairSpec == InitFair /\ [][Next]_vars /\ WF_vars(AnyStep)


-----------------------------------------------------------------------------
(* Properties of the cycle orchestrator *)

Running(i) == inv[i].pc \in RunningPcs

NoneRunning == \A i \in Invocations : ~Running(i)

\* C1: single-flight.  At most one invocation of executeCycle is inside a
\* trading cycle at any time, and the flag is set exactly then; an invocation
\* that found a cycle running never gets a cycle number, never enters a cycle
\* later (it is not queued), and the cycle counter counts exactly the
\* invocations that started a cycle.
C1_SingleFlight ==
  /\ Cardinality({i \in Invocations : Running(i)}) <= 1
  /\ isRunning <=> \E i \in Invocations : Running(i)
  /\ \A i \in Invocations :
       inv[i].cycleNo = 0 => inv[i].pc \in {"idle", "skipLog", "done"}
  /\ cycle = Cardinality({i \in Invocations : inv[i].cycleNo > 0})
  /\ \A i, j \in Invocations :
       (i # j /\ inv[i].cycleNo > 0) => inv[i].cycleNo # inv[j].cycleNo

\* a tick arrived while a cycle was running and has returned; the cycle runs on
C1_Witness ==
  \E i, j \in Invocations :
    /\ i < j
    /\ Running(i)
    /\ inv[j].pc = "done"
    /\ inv[j].cycleNo = 0
    /\ cycle = inv[i].cycleNo

C3_DecisionSurvivesPersistenceFailure ==
  \A i \in Invocations :
    (inv[i].pc = "done" /\ inv[i].computed # None)
      => /\ inv[i].result = inv[i].computed
         /\ inv[i].reported # None
         /\ inv[i].outcome = "completed"

\* what does hold: a failed insert or notification leaves the decision
\* returned and reported
InsertFailureKeepsDecision ==
  \A i \in Invocations :
    (inv[i].pc \in {"insert", "notify"} \/ inv[i].persistFailLogged)
      => /\ inv[i].result # None
         /\ inv[i].reported = Some(buildPredictionPayload(inv[i].result[1]))
         /\ inv[i].outcome = "completed"

\* C4: a cycle whose aggregation gave no more than windowSize bars does not
\* fail; it returns the neutral decision (probability 0.5, exposure 0,
\* forecastVolatility 0, trainedSamples 0, no latest window) with barsCount the
\* number of bars, and reports windowShape null.
C4_NeutralDecision ==
  \A i \in Invocations :
    (inv[i].fetched /\ Len(inv[i].bars) <= config.featureWindowSize)
      => /\ inv[i].pc \in {"report", "insert", "notify", "done"}
         /\ inv[i].outcome # "failed"
         /\ inv[i].result = Some([probability        |-> 5000,
                                  exposure           |-> 0,
                                  forecastVolatility |-> 0,
                                  latestWindow       |-> <<>>,
                                  barsCount          |-> Len(inv[i].bars),
                                  trainedSamples     |-> 0])
         /\ inv[i].reported # None => inv[i].reported[1].windowShape = <<>>
         /\ inv[i].reported # None => inv[i].reported[1].barsCount = Len(inv[i].bars)

\* a cycle with exactly windowSize bars has returned the neutral decision
C4_Witness ==
  \E i \in Invocations :
    /\ inv[i].fetched
    /\ Len(inv[i].bars) = config.featureWindowSize
    /\ inv[i].pc = "done"
    /\ inv[i].outcome = "completed"
    /\ inv[i].reported # None

\* C5 as stated: the inference window ends at the final bar of the sequence
\* (so no bar follows it to label it) and is not a training sample.
C5_InferenceWindowEndsAtFinalBar ==
  \A i \in Invocations :
    inv[i].inferredOn # None
      => /\ inv[i].inferredOn[1].last = Len(inv[i].bars) - 1
         /\ \A k \in 1..Len(inv[i].trainedOn) :
              inv[i].trainedOn[k] # inv[i].inferredOn[1]

\* C5 amended: the inference window is the last window that has a following
\* bar: it ends at the penultimate bar, covers windowSize bars, carries the
\* label computed from the final bar's close, and is not a training sample
\* (every training sample ends earlier).
C5_InferenceWindowEndsAtPenultimateBar ==
  \A i \in Invocations :
    inv[i].inferredOn # None
      => LET w == inv[i].inferredOn[1]
             n == Len(inv[i].bars)
         IN /\ w.last = n - 2
            /\ w.first = n - 1 - config.featureWindowSize
            /\ w.lastClose = inv[i].bars[n - 1].close
            /\ w.nextClose = inv[i].bars[n].close
            /\ w.label = (IF inv[i].bars[n].close > inv[i].bars[n - 1].close
                            THEN 1 ELSE 0)
            /\ \A k \in 1..Len(inv[i].trainedOn) :
                 /\ inv[i].trainedOn[k].last < w.last
                 /\ inv[i].trainedOn[k] # w

\* a cycle trained on one window and predicted on the next, labelled 1
C5_Witness ==
  \E i \in Invocations :
    /\ inv[i].inferredOn # None
    /\ Len(inv[i].trainedOn) >= 1
    /\ inv[i].inferredOn[1].label = 1

\* C6: with N feature windows the training set is the first N-1 windows in
\* order and the inference target the N-th; trainedSamples is N-1; with
\* N = 1 the train step is not entered and prediction still runs.
C6_TrainTestSplit ==
  \A i \in Invocations :
    LET fw == WindowsOf(inv[i])
        N  == Len(fw)
    IN /\ inv[i].pc = "train"
         => /\ N >= 2
            /\ inv[i].trainedOn = [k \in 1..(N - 1) |-> fw[k]]
       /\ inv[i].pc = "predict" => N >= 1
       /\ inv[i].computed # None
         => /\ N >= 1
            /\ inv[i].inferredOn = <<fw[N]>>
            /\ inv[i].trainedOn = [k \in 1..(N - 1) |-> fw[k]]
            /\ \A k \in 1..Len(inv[i].trainedOn) : inv[i].trainedOn[k] # fw[N]
            /\ inv[i].trainedSamples = N - 1
            /\ inv[i].computed[1].trainedSamples = N - 1

\* a cycle with a single window predicted without training
C6_Witness ==
  \E i \in Invocations :
    /\ Len(WindowsOf(inv[i])) = 1
    /\ inv[i].computed # None
    /\ inv[i].trainedOn = <<>>
    /\ inv[i].result # None

\* the shape of the current cycle
CurrentShape == [windowSize |-> config.featureWindowSize, featureCount |-> 22]

\* C7: the stored model is reused exactly when it loads and its
\* (windowSize, featureCount) equals the cycle's; on a mismatch or a failed
\* load the cycle goes on with a fresh model; the model trained and used for
\* predict always has the cycle's shape.
C7_ModelResolution ==
  \A i \in Invocations :
    /\ inv[i].pc \in {"train", "predict", "save"}
         => /\ inv[i].model # None
            /\ inv[i].loadedFromDisk
                 <=> (store # None /\ ~inv[i].loadFailed /\ store = <<CurrentShape>>)
            /\ inv[i].loadedFromDisk => inv[i].model = store
    /\ inv[i].model # None => inv[i].model = <<CurrentShape>>

\* a stored model of another shape was loaded and replaced by a fresh one
C7_Witness ==
  \E i \in Invocations :
    /\ inv[i].pc = "predict"
    /\ store # None
    /\ store # <<CurrentShape>>
    /\ ~inv[i].loadFailed
    /\ ~inv[i].loadedFromDisk
    /\ inv[i].model = <<CurrentShape>>

\* C8: a non-neutral cycle that returns has written the model exactly when it
\* trained on at least one sample or built the model itself; a model loaded
\* from the store and not trained is not written.
C8_SaveIffTrainedOrBuilt ==
  \A i \in Invocations :
    /\ (inv[i].result # None /\ inv[i].computed # None)
         => /\ inv[i].saved <=> (inv[i].trainedSamples > 0 \/ ~inv[i].loadedFromDisk)
            /\ inv[i].saved => store = inv[i].model
    /\ (inv[i].loadedFromDisk /\ inv[i].trainedSamples = 0)
         => (~inv[i].saveAttempted /\ ~inv[i].saved)
    /\ inv[i].saved => inv[i].saveAttempted

\* a cycle reused the stored model, had nothing to train on and returned
\* without writing it
C8_Witness ==
  \E i \in Invocations :
    /\ inv[i].result # None
    /\ inv[i].computed # None
    /\ inv[i].loadedFromDisk
    /\ inv[i].trainedSamples = 0
    /\ ~inv[i].saved


-----------------------------------------------------------------------------
(* data/barBuilder.ts *)

\* sizes, volumes and notionals are integers in units of 1e-9, prices are
\* whole numbers; the vwap quotient is kept as its whole part and its fraction
\* in units of 1e-8
SIZE_DECIMALS == 9

\* the decimals finalizeAccumulator rounds to
ROUND_DECIMALS == 8

\* Math.round(value * 10 ** decimals) / 10 ** decimals on a value in units of
\* 1e-9: Math.round rounds a half towards +Infinity
roundTo(value, decimals) ==
  LET factor == 10 ^ (SIZE_DECIMALS - decimals)
  IN ((2 * value + factor) \div (2 * factor)) * factor

\* the first trade's time taken as the bucket start, without flooring
floorToIntervalOmitted(timestampMs, interval) == timestampMs

\* Math.floor(timestampMs / intervalMs) * intervalMs
floorToInterval(timestampMs, interval) == (timestampMs \div interval) * interval

createAccumulator(bucketStart, bucketEnd, trade) ==
  [startTime  |-> bucketStart,
   endTime    |-> bucketEnd,
   open       |-> trade.price,
   high       |-> trade.price,
   low        |-> trade.price,
   close      |-> trade.price,
   volume     |-> trade.size,
   buyVolume  |-> IF trade.side = "buy" THEN trade.size ELSE 0,
   sellVolume |-> IF trade.side = "sell" THEN trade.size ELSE 0,
   tradeCount |-> 1,
   notional   |-> trade.price * trade.size]

\* a loop body that leaves tradeCount as createAccumulator set it
updateAccumulatorUncounted(accumulator, trade) ==
  [accumulator EXCEPT
     !.high       = Max(@, trade.price),
     !.low        = Min(@, trade.price),
     !.close      = trade.price,
     !.volume     = @ + trade.size,
     !.notional   = @ + trade.price * trade.size,
     !.buyVolume  = IF trade.side = "buy" THEN @ + trade.size ELSE @,
     !.sellVolume = IF trade.side = "buy" THEN @ ELSE @ + trade.size]

\* the loop body for a trade that falls into the open accumulator
updateAccumulator(accumulator, trade) ==
  [accumulator EXCEPT
     !.high       = Max(@, trade.price),
     !.low        = Min(@, trade.price),
     !.close      = trade.price,
     !.volume     = @ + trade.size,
     !.notional   = @ + trade.price * trade.size,
     !.tradeCount = @ + 1,
     !.buyVolume  = IF trade.side = "buy" THEN @ + trade.size ELSE @,
     !.sellVolume = IF trade.side = "buy" THEN @ ELSE @ + trade.size]

\* roundTo(notional / (volume || 1e-12), 8), rounding half up; with volume 0
\* every size is 0, so notional is 0 and the quotient 0
RoundedVwap(notional, volume) ==
  IF volume = 0
    THEN [whole |-> 0, frac |-> 0]
    ELSE LET unit == 10 ^ ROUND_DECIMALS
             common == GCD(notional, volume)
             n == notional \div common
             v == volume \div common
             whole == n \div v
             frac == ((n % v) * unit + (v \div 2)) \div v
         IN IF frac = unit
              THEN [whole |-> whole + 1, frac |-> 0]
              ELSE [whole |-> whole, frac |-> frac]

finalizeAccumulator(accumulator) ==
  [startTime  |-> accumulator.startTime,
   endTime    |-> accumulator.endTime,
   open       |-> accumulator.open,
   high       |-> accumulator.high,
   low        |-> accumulator.low,
   close      |-> accumulator.close,
   volume     |-> roundTo(accumulator.volume, ROUND_DECIMALS),
   buyVolume  |-> roundTo(accumulator.buyVolume, ROUND_DECIMALS),
   sellVolume |-> roundTo(accumulator.sellVolume, ROUND_DECIMALS),
   tradeCount |-> accumulator.tradeCount,
   notional   |-> roundTo(accumulator.notional, ROUND_DECIMALS),
   vwap       |-> RoundedVwap(accumulator.notional, accumulator.volume)]

\* const flush = () => { if (!accumulator) return; bars.push(...); accumulator = null }
flush(st) ==
  IF st.accumulator = None
    THEN st
    ELSE [st EXCEPT !.bars = Append(@, finalizeAccumulator(st.accumulator[1])),
                    !.accumulator = None]

\* while (trade.time >= bucketEnd) { flush(); bucketStart = bucketEnd; bucketEnd += intervalMs }
RECURSIVE advanceBucket(_, _, _)
advanceBucket(st, trade, interval) ==
  IF trade.time >= st.bucketEnd
    THEN advanceBucket([flush(st) EXCEPT !.bucketStart = st.bucketEnd,
                                         !.bucketEnd = st.bucketEnd + interval],
                       trade, interval)
    ELSE st

\* one iteration of for (const trade of sorted)
consumeTrade(st, trade, interval) ==
  LET at == advanceBucket(st, trade, interval)
  IN IF at.accumulator = None
       THEN [at EXCEPT !.accumulator =
                         Some(createAccumulator(at.bucketStart, at.bucketEnd, trade))]
       ELSE [at EXCEPT !.accumulator = Some(updateAccumulator(@[1], trade))]

RECURSIVE consumeAll(_, _, _, _)
consumeAll(st, sorted, k, interval) ==
  IF k > Len(sorted)
    THEN st
    ELSE consumeAll(consumeTrade(st, sorted[k], interval), sorted, k + 1, interval)

\* the position of t in a list sorted by time: behind every entry that is not later
RECURSIVE insertStable(_, _)
insertStable(t, sorted) ==
  IF sorted = <<>>
    THEN <<t>>
    ELSE IF sorted[Len(sorted)].time <= t.time
           THEN Append(sorted, t)
           ELSE Append(insertStable(t, SubSeq(sorted, 1, Len(sorted) - 1)),
                       sorted[Len(sorted)])

\* a sort that puts t in front of the entries of equal time
RECURSIVE insertUnstable(_, _)
insertUnstable(t, sorted) ==
  IF sorted = <<>>
    THEN <<t>>
    ELSE IF sorted[Len(sorted)].time < t.time
           THEN Append(sorted, t)
           ELSE Append(insertUnstable(t, SubSeq(sorted, 1, Len(sorted) - 1)),
                       sorted[Len(sorted)])

RECURSIVE sortUnstable(_)
sortUnstable(ts) ==
  IF ts = <<>>
    THEN <<>>
    ELSE insertUnstable(ts[Len(ts)], sortUnstable(SubSeq(ts, 1, Len(ts) - 1)))

\* the input taken as it comes, without sorting
sortOmitted(ts) == ts

\* [...trades].sort((a, b) => a.time - b.time): Array.prototype.sort is stable
RECURSIVE sortByTime(_)
sortByTime(ts) ==
  IF ts = <<>>
    THEN <<>>
    ELSE insertStable(ts[Len(ts)], sortByTime(SubSeq(ts, 1, Len(ts) - 1)))

\* the oldest bars kept: slice(0, maxBars) instead of slice(-maxBars)
trimToOldest(bars, maxBars) ==
  IF maxBars # None /\ maxBars[1] # 0 /\ Len(bars) > maxBars[1]
    THEN SubSeq(bars, 1, maxBars[1])
    ELSE bars

\* if (maxBars && bars.length > maxBars) return bars.slice(-maxBars); an
\* omitted maxBars is undefined, and both undefined and 0 are falsy
trimToMaxBars(bars, maxBars) ==
  IF maxBars # None /\ maxBars[1] # 0 /\ Len(bars) > maxBars[1]
    THEN SubSeq(bars, Len(bars) - maxBars[1] + 1, Len(bars))
    ELSE bars

buildBarsFromTrades(ts, interval, maxBars) ==
  IF Len(ts) = 0
    THEN <<>>
    ELSE LET sorted == sortByTime(ts)
             bucketStart == floorToInterval(sorted[1].time, interval)
             st0 == [bars        |-> <<>>,
                     bucketStart |-> bucketStart,
                     bucketEnd   |-> bucketStart + interval,
                     accumulator |-> None]
         IN trimToMaxBars(flush(consumeAll(st0, sorted, 1, interval)).bars, maxBars)

InitAgg ==
  /\ trades \in SeqsUpTo(Trades, MaxTrades)
  /\ intervalMs \in Intervals
  /\ maxBarsArg = None
  /\ aggBars = <<>>
  /\ aggDone = FALSE
  /\ isRunning = FALSE
  /\ cycle = 0
  /\ inv = [i \in Invocations |-> IdleInv]
  /\ nextInv = 0
  /\ repository = FALSE
  /\ config = [featureWindowSize |-> 1, risk |-> defaultConfig]
  /\ store = None
  /\ predictions = {}
  /\ notifications = {}
  /\ riskArgs = <<>>
  /\ riskResult = <<>>
  /\ featArgs = <<>>
  /\ featResult = <<>>
  /\ fetch = IdleFetch
  /\ HubConstructed

Aggregate ==
  /\ ~aggDone
  /\ \E maxBars \in MaxBarsArgs :
       /\ maxBarsArg' = maxBars
       /\ aggBars' = buildBarsFromTrades(trades, intervalMs, maxBars)
  /\ aggDone' = TRUE
  /\ UNCHANGED <<trades, intervalMs, cycleVars, riskVars, featVars, fetchVars, hubVars>>

NextAgg == Aggregate

SpecAgg == InitAgg /\ [][NextAgg]_vars


-----------------------------------------------------------------------------
(* Properties of the bar aggregator *)

\* the bucket of a timestamp: floor(t / intervalMs)
BucketOf(t) == t \div intervalMs

\* the positions of the input trades that fall into the bucket starting at start
TradesIn(start) ==
  {k \in 1..Len(trades) : BucketOf(trades[k].time) * intervalMs = start}

\* position a comes before position b in ascending time, ties in input order
Before(a, b) ==
  \/ trades[a].time < trades[b].time
  \/ trades[a].time = trades[b].time /\ a <= b

\* C9: without maxBars, trades that fall into K distinct buckets give exactly
\* K bars of strictly increasing startTime, one per bucket that holds a trade
\* and none for an empty bucket; no trades give no bars.
C9_OneBarPerNonEmptyBucket ==
  (aggDone /\ maxBarsArg = None)
    => /\ Len(aggBars) = Cardinality({BucketOf(trades[k].time) : k \in 1..Len(trades)})
       /\ \A a, b \in 1..Len(aggBars) :
            a < b => aggBars[a].startTime < aggBars[b].startTime
       /\ \A a \in 1..Len(aggBars) : TradesIn(aggBars[a].startTime) # {}
       /\ \A k \in 1..Len(trades) :
            \E a \in 1..Len(aggBars) : k \in TradesIn(aggBars[a].startTime)
       /\ trades = <<>> => aggBars = <<>>

\* unsorted trades in two buckets with empty buckets between them gave two bars
C9_Witness ==
  /\ aggDone
  /\ maxBarsArg = None
  /\ Len(trades) = 3
  /\ trades[1].time > trades[2].time
  /\ Len(aggBars) = 2
  /\ aggBars[2].startTime > aggBars[1].endTime

\* C10: for every bar returned, open is the price of the first and close the
\* price of the last trade of its bucket in ascending time with equal
\* timestamps in input order; high and low are the largest and smallest price
\* of the bucket; so low <= open, close <= high.
C10_OpenHighLowClose ==
  aggDone
    => \A a \in 1..Len(aggBars) :
         LET bar == aggBars[a]
             in == TradesIn(bar.startTime)
         IN /\ in # {}
            /\ \E f \in in : /\ \A k \in in : Before(f, k)
                             /\ bar.open = trades[f].price
            /\ \E l \in in : /\ \A k \in in : Before(k, l)
                             /\ bar.close = trades[l].price
            /\ \E h \in in : /\ \A k \in in : trades[k].price <= trades[h].price
                             /\ bar.high = trades[h].price
            /\ \E m \in in : /\ \A k \in in : trades[m].price <= trades[k].price
                             /\ bar.low = trades[m].price
            /\ bar.low <= bar.open /\ bar.open <= bar.high
            /\ bar.low <= bar.close /\ bar.close <= bar.high

\* a bar built from unsorted input with two trades of equal timestamp and
\* different prices, whose high and low are neither its open nor its close
C10_Witness ==
  /\ aggDone
  /\ Len(aggBars) = 1
  /\ Len(trades) = 3
  /\ trades[1].time > trades[2].time
  /\ trades[2].time = trades[3].time
  /\ trades[2].price # trades[3].price
  /\ aggBars[1].open = trades[2].price
  /\ aggBars[1].close = trades[1].price
  /\ aggBars[1].low < aggBars[1].open

\* C11: every bar returned starts on a multiple of intervalMs and ends
\* intervalMs later, and the trades accumulated into it are exactly the input
\* trades t with startTime <= t < endTime, i.e. those with
\* floor(t / intervalMs) * intervalMs = startTime; this holds for the bars that
\* follow a gap of several empty buckets as well.
C11_BucketAlignment ==
  aggDone
    => \A a \in 1..Len(aggBars) :
         LET bar == aggBars[a]
             within == {k \in 1..Len(trades) :
                          bar.startTime <= trades[k].time /\ trades[k].time < bar.endTime}
         IN /\ bar.startTime % intervalMs = 0
            /\ bar.endTime = bar.startTime + intervalMs
            /\ within # {}
            /\ within = TradesIn(bar.startTime)
            /\ \A k \in within :
                 bar.startTime = (trades[k].time \div intervalMs) * intervalMs
            /\ bar.tradeCount = Cardinality(within)

\* the first trade is off the bucket grid and the second bar follows at least
\* two empty buckets
C11_Witness ==
  /\ aggDone
  /\ Len(aggBars) = 2
  /\ aggBars[1].tradeCount = 2
  /\ \E k \in 1..Len(trades) :
       /\ trades[k].time % intervalMs # 0
       /\ BucketOf(trades[k].time) * intervalMs = aggBars[1].startTime
       /\ \A j \in 1..Len(trades) : trades[k].time <= trades[j].time
  /\ aggBars[2].startTime >= aggBars[1].endTime + 2 * intervalMs

\* the bars aggregation produces before maxBars is applied
UntrimmedBars == buildBarsFromTrades(trades, intervalMs, None)

\* C12 as stated: for every maxBars that is given, the result has at most
\* maxBars bars, and when more were produced it is exactly the last maxBars of
\* them in order.
C12_MostRecentMaxBars ==
  (aggDone /\ maxBarsArg # None)
    => LET n == maxBarsArg[1]
           produced == Len(UntrimmedBars)
       IN /\ Len(aggBars) <= n
          /\ produced > n
               => aggBars = [a \in 1..n |-> UntrimmedBars[produced - n + a]]

\* what does hold: a maxBars of at least 1 keeps the last maxBars bars, and a
\* maxBars of 0 returns every bar, as an omitted maxBars does
PositiveMaxBarsKeepsMostRecent ==
  aggDone
    => LET produced == Len(UntrimmedBars)
       IN IF maxBarsArg # None /\ maxBarsArg[1] >= 1
            THEN /\ Len(aggBars) <= maxBarsArg[1]
                 /\ Len(aggBars) = Min(produced, maxBarsArg[1])
                 /\ aggBars = [a \in 1..Len(aggBars) |->
                                 UntrimmedBars[produced - Len(aggBars) + a]]
            ELSE aggBars = UntrimmedBars

\* three bars were produced and maxBars = 2 kept the two most recent
TrimmedToMostRecent ==
  /\ aggDone
  /\ maxBarsArg = Some(2)
  /\ Len(UntrimmedBars) = 3
  /\ Len(aggBars) = 2
  /\ aggBars[1].startTime > UntrimmedBars[1].startTime


-----------------------------------------------------------------------------
(* risk/riskMap.ts applied to bounded inputs, alone and as the risk stage  *)
(* of runTradingCycle                                                      *)

\* probabilities handed to applyRiskMap (1e-4 units): below 0, above 1, on
\* and next to the edges of the default deadband
RiskProbabilities == {-2000, 0, 4750, 4900, 5000, 5250, 9000, 10000, 12000}

\* forecast volatilities handed to applyRiskMap (1e-4 units)
RiskVolatilities == {-100, 0, 1, 100, 150, 300}

\* RiskMapConfig values: index.ts takes each field from the environment with
\* Number(...), so any number can be configured; the last one leaves fields out
RiskConfigs ==
  [neutralZone      : {0, NEUTRAL_ZONE},
   volatilityTarget : {-VOLATILITY_TARGET, 0, VOLATILITY_TARGET, 2 * VOLATILITY_TARGET},
   volatilityFloor  : {0, VOLATILITY_FLOOR},
   maxExposure      : {-MAX_EXPOSURE, 0, MAX_EXPOSURE, 2 * ONE}]
    \cup {[maxExposure |-> 2 * ONE]}

\* log returns (1e-4 units) and the lookback arguments of computeForecastVolatility
ReturnValues == {-6931, 0, 4055, 6931}

Lookbacks == {-1, 0, 1, 2, 64}

\* closes of the bars of a cycle's risk stage, its probabilities and its
\* configured volatilityLookback values
StageCloses == {0, 1, 2}

StageProbabilities == {1000, 9000}

StageLookbacks == {0, 2, VOLATILITY_LOOKBACK}

ApplyRiskMapArgs ==
  [kind               : {"applyRiskMap"},
   probability        : RiskProbabilities,
   forecastVolatility : RiskVolatilities,
   config             : RiskConfigs]

ForecastVolatilityArgs ==
  [kind     : {"computeForecastVolatility"},
   returns  : SeqsUpTo(ReturnValues, MaxBars),
   lookback : Lookbacks]

RiskStageArgs ==
  [kind               : {"runTradingCycle"},
   bars               : SeqsUpTo({[close |-> c] : c \in StageCloses}, MaxBars),
   featureWindowSize  : {1},
   probability        : StageProbabilities,
   volatilityLookback : StageLookbacks,
   risk               : RiskConfigs]

InitRisk ==
  /\ riskArgs \in ApplyRiskMapArgs \cup ForecastVolatilityArgs \cup RiskStageArgs
  /\ riskResult = None
  /\ featArgs = <<>>
  /\ featResult = <<>>
  /\ fetch = IdleFetch
  /\ HubConstructed
  /\ trades = <<>>
  /\ intervalMs = 1
  /\ maxBarsArg = None
  /\ aggBars = <<>>
  /\ aggDone = FALSE
  /\ isRunning = FALSE
  /\ cycle = 0
  /\ inv = [i \in Invocations |-> IdleInv]
  /\ nextInv = 0
  /\ repository = FALSE
  /\ config = [featureWindowSize |-> 1, risk |-> defaultConfig]
  /\ store = None
  /\ predictions = {}
  /\ notifications = {}

CallApplyRiskMap ==
  /\ riskArgs.kind = "applyRiskMap"
  /\ riskResult = None
  /\ riskResult' = Some(applyRiskMap(riskArgs.probability,
                                     riskArgs.forecastVolatility,
                                     riskArgs.config))
  /\ UNCHANGED <<riskArgs, featVars, aggVars, cycleVars, fetchVars, hubVars>>

CallComputeForecastVolatility ==
  /\ riskArgs.kind = "computeForecastVolatility"
  /\ riskResult = None
  /\ riskResult' = Some(computeForecastVolatility(riskArgs.returns, riskArgs.lookback))
  /\ UNCHANGED <<riskArgs, featVars, aggVars, cycleVars, fetchVars, hubVars>>

\* tradingEngine.ts: the neutral short-circuit, or computeReturns,
\* computeForecastVolatility and applyRiskMap on the model's probability
RiskStage ==
  /\ riskArgs.kind = "runTradingCycle"
  /\ riskResult = None
  /\ LET bars == riskArgs.bars
         neutral == defaultDecision(Len(bars))
         returns == computeReturns(bars)
         forecastVolatility ==
           computeForecastVolatility(returns,
                                     Min(riskArgs.volatilityLookback, Len(bars)))
     IN riskResult' =
          IF InsufficientBars(bars, riskArgs.featureWindowSize)
            THEN Some([neutral            |-> TRUE,
                       probability        |-> neutral.probability,
                       exposure           |-> neutral.exposure,
                       forecastVolatility |-> neutral.forecastVolatility])
            ELSE Some([neutral            |-> FALSE,
                       probability        |-> riskArgs.probability,
                       exposure           |-> applyRiskMap(riskArgs.probability,
                                                           forecastVolatility,
                                                           riskArgs.risk),
                       forecastVolatility |-> forecastVolatility])
  /\ UNCHANGED <<riskArgs, featVars, aggVars, cycleVars, fetchVars, hubVars>>

NextRisk ==
  \/ CallApplyRiskMap
  \/ CallComputeForecastVolatility
  \/ RiskStage

SpecRisk == InitRisk /\ [][NextRisk]_vars


-----------------------------------------------------------------------------
(* Properties of the RiskMapper *)

\* signal = 2 * clip(probability, 0, 1) - 1
SignalOf(probability) == 2 * Min(Max(probability, 0), ONE) - ONE

\* x is a number in [-m, m]
Within(x, m) == x # NaN /\ -m <= x /\ x <= m

\* applyRiskMap has been called directly and has returned
Mapped == riskArgs.kind = "applyRiskMap" /\ riskResult # None

\* the risk stage of a cycle has produced its decision
Staged == riskArgs.kind = "runTradingCycle" /\ riskResult # None

C18_Deadband ==
  /\ Mapped
       => LET signal == SignalOf(riskArgs.probability)
              cfg    == Merged(riskArgs.config)
              vol    == Max(riskArgs.forecastVolatility, cfg.volatilityFloor)
          IN /\ Abs(signal) < cfg.neutralZone => riskResult[1] = 0
             /\ (riskArgs.probability = HALF /\ cfg.neutralZone > 0)
                  => riskResult[1] = 0
             /\ (/\ Abs(signal) = cfg.neutralZone
                 /\ vol > 0
                 /\ cfg.volatilityTarget >= vol
                 /\ cfg.maxExposure >= Abs(signal))
                  => riskResult[1] = signal
  /\ (/\ Staged
      /\ ~riskResult[1].neutral
      /\ Abs(SignalOf(riskArgs.probability)) < Merged(riskArgs.risk).neutralZone)
       => riskResult[1].exposure = 0

\* probability 0.525 with neutralZone 0.05: the signal 0.05 lies on the edge
\* of the deadband and is returned as the exposure
C18_Witness ==
  /\ Mapped
  /\ Merged(riskArgs.config).neutralZone = NEUTRAL_ZONE
  /\ SignalOf(riskArgs.probability) = NEUTRAL_ZONE
  /\ riskResult[1] = NEUTRAL_ZONE

\* clamp(signal * min(volatilityTarget / vol, 1), -maxExposure, maxExposure)
\* for vol > 0, truncated to 1e-4 units
ExpectedExposure(signal, vol, cfg) ==
  LET scaled == IF cfg.volatilityTarget >= vol
                  THEN signal
                  ELSE Quot(signal * cfg.volatilityTarget, vol)
  IN Max(-cfg.maxExposure, Min(cfg.maxExposure, scaled))

\* the two worked examples with the default configuration
DefaultExamples ==
  (Mapped /\ Merged(riskArgs.config) = defaultConfig)
    => /\ (riskArgs.probability = 9000 /\ riskArgs.forecastVolatility = 100)
            => riskResult[1] = 5000
       /\ (riskArgs.probability = 10000 /\ riskArgs.forecastVolatility = 300)
            => riskResult[1] = 5000

\* C19 as stated: outside the deadband the exposure is the clamped scaled
\* signal; the scale never exceeds 1, so |exposure| <= |signal| and the
\* exposure has the sign of the signal; the two examples hold with the defaults.
C19_ScaledExposure ==
  /\ (Mapped /\ ~(Abs(SignalOf(riskArgs.probability))
                     < Merged(riskArgs.config).neutralZone))
       => LET signal == SignalOf(riskArgs.probability)
              cfg    == Merged(riskArgs.config)
              vol    == Max(riskArgs.forecastVolatility, cfg.volatilityFloor)
          IN /\ vol > 0 => riskResult[1] = ExpectedExposure(signal, vol, cfg)
             /\ riskResult[1] # NaN
             /\ Abs(riskResult[1]) <= Abs(signal)
             /\ signal > 0 => riskResult[1] > 0
             /\ signal < 0 => riskResult[1] < 0
  /\ DefaultExamples

\* C19 amended: outside the deadband and with a positive volatility
\* max(forecastVolatility, volatilityFloor) the exposure is the clamped scaled
\* signal; if moreover volatilityTarget >= 0 and maxExposure >= 0 then
\* |exposure| <= |signal| and the exposure never has the opposite sign, and it
\* has the sign of the signal when both are positive; the two examples hold
\* with the defaults.
C19_ScaledExposureSensibleConfig ==
  /\ (/\ Mapped
      /\ ~(Abs(SignalOf(riskArgs.probability)) < Merged(riskArgs.config).neutralZone)
      /\ Max(riskArgs.forecastVolatility, Merged(riskArgs.config).volatilityFloor) > 0)
       => LET signal == SignalOf(riskArgs.probability)
              cfg    == Merged(riskArgs.config)
              vol    == Max(riskArgs.forecastVolatility, cfg.volatilityFloor)
          IN /\ riskResult[1] = ExpectedExposure(signal, vol, cfg)
             /\ (cfg.volatilityTarget >= 0 /\ cfg.maxExposure >= 0)
                  => /\ Abs(riskResult[1]) <= Abs(signal)
                     /\ signal >= 0 => riskResult[1] >= 0
                     /\ signal <= 0 => riskResult[1] <= 0
             /\ (cfg.volatilityTarget > 0 /\ cfg.maxExposure > 0)
                  => /\ signal > 0 => riskResult[1] > 0
                     /\ signal < 0 => riskResult[1] < 0
  /\ DefaultExamples

\* the second example: probability 1.0 at volatility 0.03 is halved to 0.5,
\* which maxExposure leaves as it is
C19_Witness ==
  /\ Mapped
  /\ Merged(riskArgs.config) = defaultConfig
  /\ riskArgs.probability = ONE
  /\ riskArgs.forecastVolatility = 2 * VOLATILITY_TARGET
  /\ riskResult[1] = HALF

\* the number of trailing returns computeForecastVolatility looks at
TrailingCount(n, lookback) == IF lookback <= 0 THEN 0 ELSE Min(n, lookback)

\* the sample variance (divisor max(n - 1, 1)) of the last count entries
TrailingVariance(returns, count) ==
  LET first == Len(returns) - count
      mean  == Quot(SumSeq([k \in 1..count |-> returns[first + k]]), count)
  IN Quot(SumSeq([k \in 1..count |->
                    (returns[first + k] - mean) * (returns[first + k] - mean)]),
          Max(count - 1, 1))

\* r is the square root of v, rounded down
IsRootOf(r, v) == r >= 0 /\ r * r <= v /\ v < (r + 1) * (r + 1)

\* C20 as stated: with no return to look at, computeForecastVolatility
\* returns the volatilityTarget of the risk config in force (for a call
\* outside a cycle, the default one); otherwise the sample standard deviation
\* of the trailing lookback returns, which is >= 0.
C20_ConfiguredTargetWhenNoReturns ==
  /\ (riskArgs.kind = "computeForecastVolatility" /\ riskResult # None)
       => LET count == TrailingCount(Len(riskArgs.returns), riskArgs.lookback)
          IN IF count = 0
               THEN riskResult[1] = defaultConfig.volatilityTarget
               ELSE IsRootOf(riskResult[1], TrailingVariance(riskArgs.returns, count))
  /\ (Staged /\ ~riskResult[1].neutral)
       => LET returns == computeReturns(riskArgs.bars)
              count == TrailingCount(Len(returns),
                                     Min(riskArgs.volatilityLookback, Len(riskArgs.bars)))
          IN IF count = 0
               THEN riskResult[1].forecastVolatility
                      = Merged(riskArgs.risk).volatilityTarget
               ELSE IsRootOf(riskResult[1].forecastVolatility,
                             TrailingVariance(returns, count))

\* what does hold: with no return to look at the result is the
\* volatilityTarget of the module's defaultConfig, whatever the cycle's risk
\* config says; otherwise it is the sample standard deviation
ForecastVolatilityFallsBackToDefault ==
  /\ (riskArgs.kind = "computeForecastVolatility" /\ riskResult # None)
       => LET count == TrailingCount(Len(riskArgs.returns), riskArgs.lookback)
          IN IF count = 0
               THEN riskResult[1] = VOLATILITY_TARGET
               ELSE IsRootOf(riskResult[1], TrailingVariance(riskArgs.returns, count))
  /\ (Staged /\ ~riskResult[1].neutral)
       => LET returns == computeReturns(riskArgs.bars)
              count == TrailingCount(Len(returns),
                                     Min(riskArgs.volatilityLookback, Len(riskArgs.bars)))
          IN IF count = 0
               THEN riskResult[1].forecastVolatility = VOLATILITY_TARGET
               ELSE IsRootOf(riskResult[1].forecastVolatility,
                             TrailingVariance(returns, count))

\* a cycle configured with volatilityTarget 0.03 and volatilityLookback 0 got
\* the forecast volatility 0.015
DefaultTargetDespiteConfig ==
  /\ Staged
  /\ ~riskResult[1].neutral
  /\ riskArgs.volatilityLookback = 0
  /\ Merged(riskArgs.risk).volatilityTarget = 2 * VOLATILITY_TARGET
  /\ riskResult[1].forecastVolatility = VOLATILITY_TARGET

-----------------------------------------------------------------------------
(* data/featureExtractor (the second half of barBuilder.ts): the indicator *)
(* series.  TradeBar fields and every series are fixed-point numbers in    *)
(* units of 1e-4; a series is a sequence read with getValue at a 0-based   *)
(* index.                                                                  *)

\* a / b for two fixed-point numbers (b # 0)
FDiv(a, b) == Quot(a * ONE, b)

\* Number.isFinite
IsFinite(x) == x \notin {NaN, Infinity, -Infinity}

\* the sign of a number, 0 counted as positive
SignOf(x) == IF x < 0 THEN -1 ELSE 1

\* numerator / denominator as JavaScript evaluates it: NaN from a NaN
\* operand, from 0 / 0 and from Infinity / Infinity, an infinity from
\* x / 0 and from Infinity / x, 0 from x / Infinity.  The operands share a
\* unit; the quotient is in units of 1e-4.
Divide(numerator, denominator) ==
  IF numerator = NaN \/ denominator = NaN
    THEN NaN
    ELSE IF ~IsFinite(numerator)
      THEN IF ~IsFinite(denominator)
             THEN NaN
             ELSE SignOf(numerator) * SignOf(denominator) * Infinity
      ELSE IF ~IsFinite(denominator)
        THEN 0
        ELSE IF denominator = 0
          THEN IF numerator = 0 THEN NaN ELSE SignOf(numerator) * Infinity
          ELSE FDiv(numerator, denominator)

\* a - b where a may be NaN or an infinity
Minus(a, b) == IF IsFinite(a) THEN a - b ELSE a

\* the entry as getValue hands it on: the fallback 0 for a non-finite one
FiniteOrZero(x) == IF IsFinite(x) THEN x ELSE 0

\* the resolution of the feature vectors: 4 decimals (units of 1e-4)
FEATURE_DECIMALS == 4

\* the decimals of the guard 1e-12 of safeDivide
GUARD_DECIMALS == 12

\* 10^n
RECURSIVE PowerOfTen(_)
PowerOfTen(n) == IF n <= 0 THEN 1 ELSE 10 * PowerOfTen(n - 1)

\* Math.abs(x) < 1e-12 for a finite x in units of 10^(-decimals): below the
\* resolution only 0 is that small
BelowGuard(x, decimals) ==
  IF decimals >= GUARD_DECIMALS
    THEN Abs(x) < PowerOfTen(decimals - GUARD_DECIMALS)
    ELSE x = 0

\* getValue(arr, index, fallback = 0)
getValue(arr, index) ==
  IF index >= 0 /\ index < Len(arr) /\ IsFinite(arr[index + 1])
    THEN arr[index + 1]
    ELSE 0

\* safeDivide(numerator, denominator, fallback) on operands in units of
\* 10^(-decimals)
safeDivide(numerator, denominator, fallback, decimals) ==
  IF ~IsFinite(numerator) \/ ~IsFinite(denominator)
    THEN fallback
    ELSE IF BelowGuard(denominator, decimals)
      THEN fallback
      ELSE Divide(numerator, denominator)

\* denominator === 0 ? 0 : value / denominator, the denominator read with
\* getValue (computeTSI, 267-270)
tsiAt(value, rawDenominator) ==
  LET denominator == FiniteOrZero(rawDenominator)
  IN IF denominator = 0 THEN 0 ELSE Divide(value, denominator)

\* close === 0 ? 0 : value / close (computeATR, 288-291)
atrRatioAt(value, close) ==
  IF close = 0 THEN 0 ELSE Divide(value, close)

\* base === 0 ? 0 : getValue(values, i) / base - 1, the base read with
\* getValue (computeMomentum, 297-298)
momentumAt(rawValue, rawBase) ==
  LET base == FiniteOrZero(rawBase)
  IN IF base = 0 THEN 0 ELSE Minus(Divide(FiniteOrZero(rawValue), base), ONE)

\* !denom ? 0 : numerator / denom with denom = deviation * getValue(std, index)
\* (computeBollingerPercent, 311-315)
bollingerAt(numerator, rawStd, deviation) ==
  LET denom == deviation * FiniteOrZero(rawStd)
  IN IF denom = 0 THEN 0 ELSE Divide(numerator, denom)

\* !base ? 0 : value / base - 1, the base read with getValue (smaRatio,
\* emaRatio at 458-465, computeVolumeSmaRatio at 321-324)
ratioAt(value, rawBase) ==
  LET base == FiniteOrZero(rawBase)
  IN IF base = 0 THEN 0 ELSE Minus(Divide(value, base), ONE)

\* prevClose > 0 ? Math.log(currentClose / prevClose) : 0, for positive closes
computeLogReturn(currentClose, prevClose) ==
  IF prevClose > 0
    THEN LET g == GCD(currentClose, prevClose)
         IN Ln(currentClose \div g, prevClose \div g)
    ELSE 0

\* mean and sample variance (divisor max(n - 1, 1)) of a non-empty slice,
\* then Math.sqrt(Math.max(variance, 0))
SampleStdDev(slice) ==
  LET n    == Len(slice)
      mean == Quot(SumSeq(slice), Max(n, 1))
      variance ==
        Quot(SumSeq([k \in 1..n |-> (slice[k] - mean) * (slice[k] - mean)]),
             Max(n - 1, 1))
  IN Sqrt(Max(variance, 0))

rollingStdDev(values, index, lookback) ==
  LET start == Max(0, index - lookback + 1)
      slice == IF index + 1 <= start \/ start >= Len(values)
                 THEN <<>>
                 ELSE SubSeq(values, start + 1, Min(index + 1, Len(values)))
  IN IF Len(slice) = 0 THEN 0 ELSE SampleStdDev(slice)

\* the running sum of the last `period` values divided by period, 0 before
\* period values exist
computeSMA(values, period) ==
  [k \in 1..Len(values) |->
     LET i == k - 1
     IN IF i >= period - 1
          THEN Quot(SumSeq(SubSeq(values, k - period + 1, k)), period)
          ELSE 0]

\* result[i] = alpha * values[i] + (1 - alpha) * result[i - 1] with
\* alpha = 2 / (period + 1), rounded once
RECURSIVE emaFrom(_, _, _)
emaFrom(values, period, result) ==
  IF Len(result) >= Len(values)
    THEN result
    ELSE LET i == Len(result)
             next == IF i = 0
                       THEN getValue(values, 0)
                       ELSE Quot(2 * getValue(values, i) + (period - 1) * result[i],
                                 period + 1)
         IN emaFrom(values, period, Append(result, next))

computeEMA(values, period) == emaFrom(values, period, <<>>)

\* 1 / (1 + 1 / rs) with rs = avgLoss === 0 ? 100 : avgGain / avgLoss; for
\* rs = 0 the inner quotient is Infinity and the result 0
rsiOf(avgGain, avgLoss) ==
  LET rs == IF avgLoss = 0 THEN 100 * ONE ELSE FDiv(avgGain, avgLoss)
  IN IF rs = 0 THEN 0 ELSE FDiv(ONE, ONE + FDiv(ONE, rs))

\* the seed loop: gains and losses of the differences 1..min(period, length - 1)
RECURSIVE rsiSeed(_, _, _)
rsiSeed(values, period, i) ==
  IF i < 1
    THEN [gain |-> 0, loss |-> 0]
    ELSE LET before == rsiSeed(values, period, i - 1)
             diff == getValue(values, i) - getValue(values, i - 1)
         IN IF diff >= 0
              THEN [before EXCEPT !.gain = @ + diff]
              ELSE [before EXCEPT !.loss = @ - diff]

\* Wilder smoothing from index period + 1 on
RECURSIVE rsiFrom(_, _, _, _, _)
rsiFrom(values, period, result, avgGain, avgLoss) ==
  IF Len(result) >= Len(values)
    THEN result
    ELSE LET i == Len(result)
             diff == getValue(values, i) - getValue(values, i - 1)
             currentGain == IF diff > 0 THEN diff ELSE 0
             currentLoss == IF diff < 0 THEN -diff ELSE 0
             gain == Quot(avgGain * (period - 1) + currentGain, period)
             loss == Quot(avgLoss * (period - 1) + currentLoss, period)
         IN rsiFrom(values, period, Append(result, rsiOf(gain, loss)), gain, loss)

computeRSI(values, period) ==
  LET n == Len(values)
      neutral == [k \in 1..n |-> HALF]
      seed == rsiSeed(values, period, Min(period, n - 1))
      avgGain == Quot(seed.gain, period)
      avgLoss == Quot(seed.loss, period)
  IN IF n < 2 \/ ~(period < n)
       THEN neutral
       ELSE rsiFrom(values, period,
                    Append(SubSeq(neutral, 1, period), rsiOf(avgGain, avgLoss)),
                    avgGain, avgLoss)

computeStdDevSeries(values, period) ==
  [k \in 1..Len(values) |-> rollingStdDev(values, k - 1, period)]

computeMACD(values, fastPeriod, slowPeriod, signalPeriod) ==
  LET fast == computeEMA(values, fastPeriod)
      slow == computeEMA(values, slowPeriod)
      macd == [k \in 1..Len(fast) |-> fast[k] - getValue(slow, k - 1)]
  IN [macd |-> macd, signal |-> computeEMA(macd, signalPeriod)]

computeTSI(values, longPeriod, shortPeriod) ==
  LET n == Len(values)
      momentum == [k \in 1..n |->
                     IF k = 1 THEN 0 ELSE values[k] - getValue(values, k - 2)]
      absMomentum == [k \in 1..n |-> Abs(momentum[k])]
      emaMomentum2 == computeEMA(computeEMA(momentum, shortPeriod), longPeriod)
      emaAbsMomentum2 == computeEMA(computeEMA(absMomentum, shortPeriod), longPeriod)
  IN IF n < 2
       THEN [k \in 1..n |-> 0]
       ELSE [k \in 1..n |->
               tsiAt(emaMomentum2[k], At(emaAbsMomentum2, k - 1))]

computeATR(bars, period) ==
  LET tr == [k \in 1..Len(bars) |->
               LET bar == bars[k]
                   prevClose == IF k > 1 THEN bars[k - 1].close ELSE bar.close
               IN Max(bar.high - bar.low,
                      Max(Abs(bar.high - prevClose), Abs(bar.low - prevClose)))]
      atr == computeEMA(tr, period)
  IN [k \in 1..Len(atr) |->
        atrRatioAt(atr[k], bars[k].close)]

computeMomentum(values, lookback) ==
  [k \in 1..Len(values) |->
     LET i == k - 1
     IN IF i < lookback
          THEN 0
          ELSE momentumAt(values[k], At(values, i - lookback))]

computeBollingerPercent(values, period, deviation) ==
  LET sma == computeSMA(values, period)
      std == computeStdDevSeries(values, period)
  IN [k \in 1..Len(values) |->
        bollingerAt(values[k] - getValue(sma, k - 1), At(std, k - 1), deviation)]

\* value / base - 1 against a series of bases, 0 where the base is 0
ratioToBase(values, bases) ==
  [k \in 1..Len(values) |->
     ratioAt(values[k], At(bases, k - 1))]

computeVolumeSmaRatio(volumes, period) ==
  ratioToBase(volumes, computeSMA(volumes, period))

-----------------------------------------------------------------------------
(* normalizeWindow.  `unit` is the resolution of the matrix: the integer   *)
(* that stands for 1.0 (ONE for a window of feature vectors).  The mean    *)
(* and the deviations are kept exact as numerators over the row count:     *)
(* value - mean = (rows * value - sum) / rows.                             *)

\* the entries of column c (1-based), row[c] ?? 0
Column(window, c) ==
  [r \in 1..Len(window) |-> IF c <= Len(window[r]) THEN window[r][c] ELSE 0]

\* rows * (value - mean) for every row of a column
Deviations(column) ==
  [r \in 1..Len(column) |-> Len(column) * column[r] - SumSeq(column)]

SumSquares(s) == SumSeq([k \in 1..Len(s) |-> s[k] * s[k]])

\* whether the sum of the squares of s is below limit (no square exceeds
\* the limit before it is added)
SquaresBelow(s, limit) ==
  /\ \A k \in 1..Len(s) : Abs(s[k]) < limit
  /\ SumSquares(s) < limit

\* the divisor of the variance: a population divisor instead of the
\* sample divisor
PopulationDivisor(rows) == rows

\* Math.max(rows - 1, 1)
SampleDivisor(rows) == Max(rows - 1, 1)

\* 1 / 1e-6
EPSILON_INVERSE == 1000000

\* stdev < 1e-6 for stdev = sqrt(sum(dev^2) / rows^2 / divisor) / unit
BelowEpsilon(deviations, unit) ==
  LET rows == Len(deviations)
      divisor == SampleDivisor(rows)
  IN IF unit >= EPSILON_INVERSE
       THEN LET k == unit \div EPSILON_INVERSE
            IN SquaresBelow(deviations, rows * rows * divisor * k * k)
       ELSE LET k == EPSILON_INVERSE \div unit
            IN \/ \A r \in 1..rows : deviations[r] = 0
               \/ /\ rows * rows * divisor > k * k
                  /\ SquaresBelow(deviations,
                                  (rows * rows * divisor + k * k - 1) \div (k * k))

\* (value - mean) / stdev in units of 1e-4 for each row of a column whose
\* stdev is not below 1e-6: the deviations are first scaled by the largest
\* of them, so that their squares stay small
ZScores(deviations) ==
  LET rows == Len(deviations)
      largest == CHOOSE m \in {Abs(deviations[r]) : r \in 1..rows} :
                   \A r \in 1..rows : Abs(deviations[r]) <= m
      scaled == [r \in 1..rows |-> Quot(deviations[r] * ONE, largest)]
      stdev == Sqrt(Quot(SumSquares(scaled), SampleDivisor(rows)))
  IN [r \in 1..rows |-> Quot(scaled[r] * ONE, stdev)]

normalizeColumn(column, unit) ==
  LET deviations == Deviations(column)
  IN IF BelowEpsilon(deviations, unit)
       THEN [r \in 1..Len(column) |-> 0]
       ELSE ZScores(deviations)

normalizeWindow(window, unit) ==
  LET rows == Len(window)
      cols == IF rows = 0 THEN 0 ELSE Len(window[1])
      normalized == [c \in 1..cols |-> normalizeColumn(Column(window, c), unit)]
  IN IF rows = 0 \/ cols = 0
       THEN window
       ELSE [r \in 1..rows |-> [c \in 1..Len(window[r]) |->
               IF c <= cols THEN normalized[c][r] ELSE NaN]]

-----------------------------------------------------------------------------
(* buildFeatureVector and buildFeatureWindows with the feature matrix.     *)

\* options.<field> with the default of the destructuring at 439-440
OptionOr(options, field, default) ==
  IF field \in DOMAIN options THEN options[field] ELSE default

\* lines 446-486: the return series and the IndicatorContext
computeIndicators(bars, volatilityLookback) ==
  LET n == Len(bars)
      returns == [k \in 1..n |->
                    computeLogReturn(bars[k].close,
                                     IF k > 1 THEN bars[k - 1].close ELSE bars[k].close)]
      closes == [k \in 1..n |-> bars[k].close]
      volumes == [k \in 1..n |-> bars[k].volume]
      macd == computeMACD(closes, 12, 26, 9)
  IN [returns          |-> returns,
      volatility       |-> [k \in 1..n |->
                              rollingStdDev(returns, k - 1, Max(volatilityLookback, 1))],
      smaRatio         |-> ratioToBase(closes, computeSMA(closes, 20)),
      emaRatio         |-> ratioToBase(closes, computeEMA(closes, 12)),
      rsi              |-> computeRSI(closes, 14),
      macd             |-> macd.macd,
      macdSignal       |-> macd.signal,
      tsi              |-> computeTSI(closes, 25, 13),
      atrRatio         |-> computeATR(bars, 14),
      volumeSmaRatio   |-> computeVolumeSmaRatio(volumes, 20),
      momentum         |-> computeMomentum(closes, 5),
      bollingerPercent |-> computeBollingerPercent(closes, 20, 2)]

\* the 22 features of the bar at 0-based index; Math.max(high - low, 1e-12)
\* and volume || 1e-12 are 0 at the resolution of the model when the spread
\* or the volume is 0
buildFeatureVector(bars, index, indicators) ==
  IF index < 0 \/ index >= Len(bars)
    THEN [c \in 1..FEATURE_COUNT |-> 0]
    ELSE LET bar == At(bars, index)
             prevBar == IF index > 0 THEN At(bars, index - 1) ELSE bar
             logReturn == computeLogReturn(bar.close, prevBar.close)
             spread == Max(bar.high - bar.low, 0)
             body == bar.close - bar.open
             upperShadow == bar.high - Max(bar.open, bar.close)
             lowerShadow == Min(bar.open, bar.close) - bar.low
             signVolume == bar.buyVolume - bar.sellVolume
             buyRatio == safeDivide(bar.buyVolume, bar.volume, 0, FEATURE_DECIMALS)
             volumeDelta == safeDivide(signVolume, bar.volume, 0, FEATURE_DECIMALS)
         IN << bar.close,
               bar.vwap,
               logReturn,
               safeDivide(spread, bar.close, 0, FEATURE_DECIMALS),
               safeDivide(body, bar.open, 0, FEATURE_DECIMALS),
               safeDivide(upperShadow, bar.close, 0, FEATURE_DECIMALS),
               safeDivide(lowerShadow, bar.close, 0, FEATURE_DECIMALS),
               bar.volume,
               bar.notional,
               buyRatio,
               volumeDelta,
               At(indicators.volatility, index),
               At(indicators.smaRatio, index),
               At(indicators.emaRatio, index),
               At(indicators.rsi, index),
               At(indicators.macd, index),
               At(indicators.macdSignal, index),
               At(indicators.tsi, index),
               At(indicators.atrRatio, index),
               At(indicators.volumeSmaRatio, index),
               At(indicators.momentum, index),
               At(indicators.bollingerPercent, index) >>

\* bars.slice(idx - windowSize + 1, idx + 1) for windowSize >= 1
windowBarsAt(bars, windowSize, idx) ==
  SubSeq(bars, Max(idx - windowSize + 1, 0) + 1, Min(idx + 1, Len(bars)))

\* the feature matrix of the window ending at idx, normalized over the
\* statistics of its rows and of the bar that follows them
lookaheadNormalizedMatrixAt(bars, indicators, windowSize, normalizePerFeature, idx) ==
  LET first == Max(idx - windowSize + 1, 0)
      through == Min(idx + 2, Len(bars))
      rows == [offset \in 1..(through - first) |->
                 buildFeatureVector(bars, first + offset - 1, indicators)]
      normalized == IF normalizePerFeature THEN normalizeWindow(rows, ONE) ELSE rows
  IN SubSeq(normalized, 1, Min(idx + 1, Len(bars)) - first)

\* lines 491-504: the rows of the window and their normalization
featureMatrixAt(bars, indicators, windowSize, normalizePerFeature, idx) ==
  LET windowBars == windowBarsAt(bars, windowSize, idx)
      featureMatrix == [offset \in 1..Len(windowBars) |->
                          buildFeatureVector(bars, idx - windowSize + offset, indicators)]
  IN IF normalizePerFeature
       THEN normalizeWindow(featureMatrix, ONE)
       ELSE featureMatrix

\* lines 505-520: one pushed FeatureWindow
featureWindowWithMatrix(bars, indicators, windowSize, normalizePerFeature, idx) ==
  [window    |-> featureMatrixAt(bars, indicators, windowSize, normalizePerFeature, idx),
   label     |-> labelOf(At(bars, idx + 1).close, At(bars, idx).close),
   lastClose |-> At(bars, idx).close,
   nextClose |-> At(bars, idx + 1).close,
   bars      |-> windowBarsAt(bars, windowSize, idx)]

\* the loop started at windowSize instead of windowSize - 1
windowIndicesFromWindowSize(bars, windowSize) ==
  [k \in 1..(Len(bars) - windowSize - 1) |-> windowSize + (k - 1)]

\* for (let idx = windowSize - 1; idx < bars.length - 1; idx += 1)
windowIndices(bars, windowSize) ==
  [k \in 1..(Len(bars) - windowSize) |-> windowSize - 1 + (k - 1)]

\* buildFeatureWindows(bars, options) with every field of a FeatureWindow
buildFeatureWindowsWithMatrix(bars, options) ==
  LET windowSize == options.windowSize
      normalizePerFeature == OptionOr(options, "normalizePerFeature", TRUE)
      volatilityLookback == OptionOr(options, "volatilityLookback", 16)
      indicators == computeIndicators(bars, volatilityLookback)
      indices == windowIndices(bars, windowSize)
  IN IF Len(bars) <= windowSize
       THEN <<>>
       ELSE [k \in 1..Len(indices) |->
               featureWindowWithMatrix(bars, indicators, windowSize,
                                       normalizePerFeature, indices[k])]

-----------------------------------------------------------------------------
(* The feature extractor applied to bounded inputs: buildFeatureWindows on *)
(* bar sequences and normalizeWindow on small matrices.                    *)

\* a TradeBar as the aggregator produces it: volume = buyVolume + sellVolume,
\* vwap = notional / volume (all in 1e-4 units)
FeatureBar(open, high, low, close, buyVolume, sellVolume, notional) ==
  [open       |-> open * ONE,
   high       |-> high * ONE,
   low        |-> low * ONE,
   close      |-> close * ONE,
   volume     |-> (buyVolume + sellVolume) * ONE,
   buyVolume  |-> buyVolume * ONE,
   sellVolume |-> sellVolume * ONE,
   notional   |-> notional * ONE,
   vwap       |-> Quot(notional * ONE, buyVolume + sellVolume)]

\* one buy at 1; trades at 1 then 2; trades at 2 then 1; trades at 2 then 3
flatBar == FeatureBar(1, 1, 1, 1, 1, 0, 1)

risingBar == FeatureBar(1, 2, 1, 2, 1, 1, 3)

fallingBar == FeatureBar(2, 2, 1, 1, 1, 1, 3)

higherBar == FeatureBar(2, 3, 2, 3, 1, 1, 5)

BarKinds == {flatBar, risingBar, fallingBar, higherBar}

\* the longest warm-up of an indicator that starts at 0: SMA20, Bollinger
WARM_UP == 20

\* an earlier history that takes the indicators out of their warm-up
WarmUpBars == [k \in 1..WARM_UP |-> IF k % 2 = 1 THEN risingBar ELSE fallingBar]

\* bars that follow the warm-up history
MaxRecent == 1

\* short bar sequences, and the history followed by recent bars
FeatureBarSeqs ==
  SeqsUpTo(BarKinds, MaxBars)
    \cup {WarmUpBars \o recent : recent \in SeqsUpTo(BarKinds, MaxRecent)}

FeatureWindowSizes == {1, 2, 3}

\* the options runTradingCycle passes (tradingEngine.ts), the same without
\* normalization, and options that leave the defaults in force
FeatureOptions ==
  {[windowSize          |-> w,
    normalizePerFeature |-> n,
    volatilityLookback  |-> Min(w, 16)] : w \in FeatureWindowSizes, n \in BOOLEAN}
    \cup {[windowSize |-> 2]}

\* matrices at a resolution of 1e-7, where a column that is not constant can
\* still have a standard deviation below 1e-6
FINE_UNIT == 10000000

MaxRows == 3

FineValues == {0, 1, 20}

FineMatrices ==
  UNION {[1..rows -> [1..cols -> FineValues]] : rows \in 0..MaxRows, cols \in {0, 2}}

BuildFeatureWindowsArgs ==
  [kind    : {"buildFeatureWindows"},
   bars    : FeatureBarSeqs,
   options : FeatureOptions]

NormalizeWindowArgs ==
  [kind   : {"normalizeWindow"},
   window : FineMatrices,
   unit   : {FINE_UNIT}]

\* the places where an indicator or a feature divides
DivisionSites ==
  {"safeDivide", "tsi", "atrRatio", "momentum", "bollingerPercent", "ratio"}

\* operands in units of 1e-13, on both sides of the guard 1e-12 (= 10), and
\* the non-finite numbers
FINE_DECIMALS == 13

DivisionOperands == {NaN, -Infinity, Infinity, -20, -1, 0, 1, 9, 10, 20}

DivisionArgs ==
  [kind        : {"division"},
   site        : DivisionSites,
   numerator   : DivisionOperands,
   denominator : DivisionOperands]

\* the division of a site on a numerator and the series entry or bar field
\* its denominator is made of
divisionAt(site, numerator, denominator) ==
  CASE site = "safeDivide"       -> safeDivide(numerator, denominator, 0, FINE_DECIMALS)
    [] site = "tsi"              -> tsiAt(numerator, denominator)
    [] site = "atrRatio"         -> atrRatioAt(numerator, denominator)
    [] site = "momentum"         -> momentumAt(numerator, denominator)
    [] site = "bollingerPercent" -> bollingerAt(numerator, denominator, 2)
    [] site = "ratio"            -> ratioAt(numerator, denominator)

InitFeat ==
  /\ featArgs \in BuildFeatureWindowsArgs \cup NormalizeWindowArgs \cup DivisionArgs
  /\ featResult = None
  /\ fetch = IdleFetch
  /\ HubConstructed
  /\ riskArgs = <<>>
  /\ riskResult = None
  /\ trades = <<>>
  /\ intervalMs = 1
  /\ maxBarsArg = None
  /\ aggBars = <<>>
  /\ aggDone = FALSE
  /\ isRunning = FALSE
  /\ cycle = 0
  /\ inv = [i \in Invocations |-> IdleInv]
  /\ nextInv = 0
  /\ repository = FALSE
  /\ config = [featureWindowSize |-> 1, risk |-> defaultConfig]
  /\ store = None
  /\ predictions = {}
  /\ notifications = {}

CallBuildFeatureWindows ==
  /\ featArgs.kind = "buildFeatureWindows"
  /\ featResult = None
  /\ featResult' = Some(buildFeatureWindowsWithMatrix(featArgs.bars, featArgs.options))
  /\ UNCHANGED <<featArgs, riskVars, aggVars, cycleVars, fetchVars, hubVars>>

CallNormalizeWindow ==
  /\ featArgs.kind = "normalizeWindow"
  /\ featResult = None
  /\ featResult' = Some(normalizeWindow(featArgs.window, featArgs.unit))
  /\ UNCHANGED <<featArgs, riskVars, aggVars, cycleVars, fetchVars, hubVars>>

CallDivision ==
  /\ featArgs.kind = "division"
  /\ featResult = None
  /\ featResult' = Some(divisionAt(featArgs.site, featArgs.numerator,
                                   featArgs.denominator))
  /\ UNCHANGED <<featArgs, riskVars, aggVars, cycleVars, fetchVars, hubVars>>

NextFeat ==
  \/ CallBuildFeatureWindows
  \/ CallNormalizeWindow
  \/ CallDivision

SpecFeat == InitFeat /\ [][NextFeat]_vars


-----------------------------------------------------------------------------
(* Properties of the FeatureWindower *)

\* buildFeatureWindows has been called and has returned
Built == featArgs.kind = "buildFeatureWindows" /\ featResult # None

\* normalizeWindow has been called on a matrix and has returned
Normalized == featArgs.kind = "normalizeWindow" /\ featResult # None

\* the normalizePerFeature option in force for the call
NormalizationEnabled == OptionOr(featArgs.options, "normalizePerFeature", TRUE)

\* C13: buildFeatureWindows returns an empty sequence whenever
\* bars.length <= windowSize (bars.length = windowSize included); otherwise
\* it returns exactly bars.length - windowSize windows in chronological
\* order, the i-th (from 0) covering the bars i .. i + windowSize - 1, each
\* with exactly windowSize rows of exactly FEATURE_COUNT values, the shape
\* the orchestrator's summary of the window records.
C13_WindowCountAndShape ==
  Built =>
    LET bars       == featArgs.bars
        windowSize == featArgs.options.windowSize
        windows    == featResult[1]
        summaries  == buildFeatureWindows(bars, windowSize)
    IN /\ Len(bars) <= windowSize => windows = <<>>
       /\ Len(bars) > windowSize =>
            /\ Len(windows) = Len(bars) - windowSize
            /\ Len(summaries) = Len(windows)
            /\ \A k \in 1..Len(windows) :
                 /\ windows[k].bars = SubSeq(bars, k, k + windowSize - 1)
                 /\ Len(windows[k].window) = windowSize
                 /\ \A r \in 1..Len(windows[k].window) :
                      Len(windows[k].window[r]) = FEATURE_COUNT
                 /\ summaries[k].first = k - 1
                 /\ summaries[k].last = k + windowSize - 2
                 /\ summaries[k].rows = Len(windows[k].window)
                 /\ summaries[k].cols = FEATURE_COUNT
                 /\ summaries[k].label = windows[k].label
                 /\ summaries[k].lastClose = windows[k].lastClose
                 /\ summaries[k].nextClose = windows[k].nextClose

\* 21 bars and windowSize 3 gave 18 windows
C13_Witness ==
  /\ Built
  /\ Len(featArgs.bars) = WARM_UP + 1
  /\ featArgs.options.windowSize = 3
  /\ Len(featResult[1]) = WARM_UP - 2
  /\ Len(featResult[1][WARM_UP - 2].window) = 3

\* the closes of the bars rise strictly
StrictlyIncreasingCloses(bars) ==
  \A k \in 1..(Len(bars) - 1) : bars[k].close < bars[k + 1].close

\* C14: for every returned window, lastClose is the close of the window's
\* last bar and nextClose the close of the bar after it; label is 1 if
\* nextClose is strictly greater than lastClose and 0 otherwise (equal
\* closes give 0); so over strictly increasing closes every window has
\* label 1.
C14_Labels ==
  Built =>
    LET bars       == featArgs.bars
        windowSize == featArgs.options.windowSize
        windows    == featResult[1]
    IN /\ \A k \in 1..Len(windows) :
            LET lastClose == bars[k + windowSize - 1].close
                nextClose == bars[k + windowSize].close
            IN /\ windows[k].lastClose = lastClose
               /\ windows[k].nextClose = nextClose
               /\ windows[k].label \in {0, 1}
               /\ windows[k].label = 1 <=> nextClose > lastClose
               /\ nextClose = lastClose => windows[k].label = 0
       /\ StrictlyIncreasingCloses(bars)
            => \A k \in 1..Len(windows) : windows[k].label = 1

\* one window whose next close equals its last close has label 0 and
\* another, followed by a higher close, has label 1
C14_Witness ==
  /\ Built
  /\ \E k \in 1..Len(featResult[1]) :
       /\ featResult[1][k].nextClose = featResult[1][k].lastClose
       /\ featResult[1][k].label = 0
  /\ \E k \in 1..Len(featResult[1]) :
       /\ featResult[1][k].nextClose > featResult[1][k].lastClose
       /\ featResult[1][k].label = 1

\* the options of the call with normalization switched off
RawOptions ==
  [windowSize          |-> featArgs.options.windowSize,
   normalizePerFeature |-> FALSE,
   volatilityLookback  |-> OptionOr(featArgs.options, "volatilityLookback", 16)]

\* the raw sample standard deviation of a column is below 1e-6: with one row
\* it is 0; with more rows the sum of the squared deviations from the mean,
\* divided by rows - 1, is below 1e-12.  At the resolution of the feature
\* vectors (1e-4) this happens for a constant column only.
RawStdevBelowEpsilon(column, unit) ==
  LET rows == Len(column)
      sum  == SumSeq(column)
  IN \/ rows = 1
     \/ \A r \in 1..rows : rows * column[r] = sum
     \/ /\ unit >= EPSILON_INVERSE
        /\ SquaresBelow([r \in 1..rows |-> rows * column[r] - sum],
                        rows * rows * (rows - 1)
                          * (unit \div EPSILON_INVERSE) * (unit \div EPSILON_INVERSE))

\* mean 0 and sample standard deviation 1, both to within 0.005
StandardScores(column) ==
  /\ Abs(SumSeq(column)) <= Len(column) * (ONE \div 200)
  /\ Abs(SampleStdDev(column) - ONE) <= ONE \div 200

\* what normalization makes of a raw matrix: a column whose raw standard
\* deviation is below 1e-6 is all zeros, every other column is standardized
NormalizedFrom(raw, normalized, unit) ==
  /\ Len(normalized) = Len(raw)
  /\ \A r \in 1..Len(raw) : Len(normalized[r]) = Len(raw[r])
  /\ Len(raw) > 0 =>
       \A c \in 1..Len(raw[1]) :
         IF RawStdevBelowEpsilon(Column(raw, c), unit)
           THEN \A r \in 1..Len(raw) : normalized[r][c] = 0
           ELSE StandardScores(Column(normalized, c))

\* C15: with normalization enabled, in every returned window each column
\* whose raw sample standard deviation over the window's rows is below 1e-6
\* (any column that is constant over the window, and every column when
\* windowSize = 1) is all zeros, and every other column has mean 0 and
\* sample standard deviation 1 over the window's rows, to the precision of
\* the arithmetic.  The same holds of normalizeWindow on any matrix.
C15_Normalization ==
  /\ (Built /\ NormalizationEnabled) =>
       LET raw == buildFeatureWindowsWithMatrix(featArgs.bars, RawOptions)
       IN /\ Len(raw) = Len(featResult[1])
          /\ \A k \in 1..Len(raw) :
               /\ NormalizedFrom(raw[k].window, featResult[1][k].window, ONE)
               /\ featArgs.options.windowSize = 1 =>
                    \A c \in 1..FEATURE_COUNT : featResult[1][k].window[1][c] = 0
  /\ (Built /\ ~NormalizationEnabled) =>
       \A k \in 1..Len(featResult[1]) :
         \A r \in 1..Len(featResult[1][k].window) :
           featResult[1][k].window[r][1] = featResult[1][k].bars[r].close
  /\ Normalized => NormalizedFrom(featArgs.window, featResult[1], featArgs.unit)

\* a normalized window of three rows in which the volume column, constant
\* over the window, is all zeros and the close column has entries on both
\* sides of 0
C15_Witness ==
  /\ Built
  /\ NormalizationEnabled
  /\ featArgs.options.windowSize = 3
  /\ \E k \in 1..Len(featResult[1]) :
       LET window == featResult[1][k].window
       IN /\ \A r \in 1..3 : window[r][8] = 0
          /\ \E r \in 1..3 : window[r][1] > HALF
          /\ \E r \in 1..3 : window[r][1] < -HALF

\* normalizeWindow returned zeros for a column that is not constant but
\* has a standard deviation below 1e-6, next to a standardized column
SubEpsilonColumnZeroed ==
  /\ Normalized
  /\ Len(featArgs.window) = 2
  /\ featArgs.window[1] = <<0, 0>>
  /\ featArgs.window[2] = <<1, 20>>
  /\ featResult[1][1][1] = 0
  /\ featResult[1][2][1] = 0
  /\ featResult[1][1][2] < 0
  /\ featResult[1][2][2] > 0

\* bars without its last bar
WithoutLastBar(bars) == SubSeq(bars, 1, Len(bars) - 1)

\* C16: no lookahead.  Every window that ends before the last two bars is,
\* in all its fields (matrix, label, lastClose, nextClose, bars), the window
\* the same call returns without the last bar, so that removing, appending
\* or changing a bar after idx + 1 leaves it unchanged; the matrix of the
\* last window is the one computed from the bars without the last bar
\* (bars 0..idx); and the label, lastClose and nextClose of every window are
\* those of the two bars idx and idx + 1 alone.
C16_NoLookahead ==
  (Built /\ Len(featArgs.bars) > 0) =>
    LET bars       == featArgs.bars
        options    == featArgs.options
        windowSize == options.windowSize
        windows    == featResult[1]
        shorter    == WithoutLastBar(bars)
        before     == buildFeatureWindowsWithMatrix(shorter, options)
    IN /\ Len(before) <= Len(windows)
       /\ \A k \in 1..Len(before) : windows[k] = before[k]
       /\ Len(windows) > 0 =>
            windows[Len(windows)].window =
              featureMatrixAt(shorter,
                              computeIndicators(shorter, RawOptions.volatilityLookback),
                              windowSize, NormalizationEnabled, Len(bars) - 2)
       /\ \A k \in 1..Len(windows) :
            LET pair == buildFeatureWindowsWithMatrix(
                          SubSeq(bars, k + windowSize - 1, k + windowSize),
                          [windowSize |-> 1])[1]
            IN /\ windows[k].label = pair.label
               /\ windows[k].lastClose = pair.lastClose
               /\ windows[k].nextClose = pair.nextClose

\* 21 bars, windowSize 2 and normalization: the 18 windows that end before
\* the last two bars are those of the first 20 bars
C16_Witness ==
  /\ Built
  /\ NormalizationEnabled
  /\ Len(featArgs.bars) = WARM_UP + 1
  /\ featArgs.options.windowSize = 2
  /\ Len(featResult[1]) = WARM_UP - 1
  /\ Len(buildFeatureWindowsWithMatrix(WithoutLastBar(featArgs.bars),
                                       featArgs.options)) = WARM_UP - 2

\* a division site has been applied to its operands
Divided == featArgs.kind = "division" /\ featResult # None

\* the denominator the site divides by: Bollinger % doubles the standard
\* deviation
DenominatorAt(site, denominator) ==
  IF site = "bollingerPercent" /\ IsFinite(denominator)
    THEN 2 * denominator
    ELSE denominator

\* the guard of the claim: a non-finite operand or a denominator whose
\* magnitude is below 1e-12
MustFallBack(site, numerator, denominator) ==
  \/ ~IsFinite(numerator)
  \/ ~IsFinite(denominator)
  \/ BelowGuard(DenominatorAt(site, denominator), FINE_DECIMALS)

\* C21 as stated: every division of the indicators and features is guarded;
\* whenever the denominator's magnitude is below 1e-12, or the numerator or
\* the denominator is non-finite, the result is the fallback 0, for the TSI,
\* ATR ratio, momentum, Bollinger %, SMA/EMA ratio and volume-SMA ratio
\* divisions as well as the per-bar ratios.
C21_GuardedDivisions ==
  Divided =>
    (MustFallBack(featArgs.site, featArgs.numerator, featArgs.denominator)
       => featResult[1] = 0)

\* what the divisions do guarantee: safeDivide (the per-bar ratios) falls
\* back to 0 under the guard of the claim and divides otherwise; every
\* other site returns 0 for a denominator that is exactly 0, and those that
\* read their denominator with getValue also for a non-finite one.
DivisionsGuardedAgainstZero ==
  Divided =>
    LET site        == featArgs.site
        numerator   == featArgs.numerator
        denominator == featArgs.denominator
    IN /\ site = "safeDivide" =>
            IF MustFallBack(site, numerator, denominator)
              THEN featResult[1] = 0
              ELSE featResult[1] = FDiv(numerator, denominator)
       /\ denominator = 0 => featResult[1] = 0
       /\ (site \in {"tsi", "momentum", "bollingerPercent", "ratio"}
             /\ ~IsFinite(denominator)) => featResult[1] = 0
       /\ (site = "momentum" /\ IsFinite(denominator)) => IsFinite(featResult[1])

\* the TSI division ran on a denominator of 1e-13 and returned 1 instead of
\* the fallback
TinyDenominatorDivided ==
  /\ Divided
  /\ featArgs.site = "tsi"
  /\ featArgs.numerator = 1
  /\ featArgs.denominator = 1
  /\ featResult[1] = ONE


-----------------------------------------------------------------------------
(* Properties of the prediction repository (Spec) *)

\* what savePrediction guarantees in every state: a notification exists
\* only for an inserted row; an invocation whose INSERT failed (the error
\* reached executeCycle, which logged it) has neither row nor notification;
\* the NOTIFY is attempted only with the row inserted; and an invocation
\* whose row is inserted but whose notification is missing has returned
\* without a persistence error.
NotifiedOnlyAfterInsert ==
  /\ notifications \subseteq predictions
  /\ \A i \in Invocations :
       /\ inv[i].persistFailLogged
            => /\ inv[i].cycleNo \notin predictions
               /\ inv[i].cycleNo \notin notifications
               /\ inv[i].pc = "done"
       /\ inv[i].pc = "notify" => inv[i].cycleNo \in predictions
       /\ (/\ inv[i].pc = "done"
           /\ inv[i].reported # None
           /\ inv[i].cycleNo \in predictions \ notifications)
            => /\ ~inv[i].persistFailLogged
               /\ inv[i].outcome = "completed"

\* C23: savePrediction publishes a notification on the predictions channel
\* only after the row has been inserted: a failed insert sends no
\* notification and its error propagates to the caller; after a successful
\* insert a failed notification leaves savePrediction successful, and the
\* row stays inserted (no step removes a row).
C23_NotifyAfterInsert ==
  /\ []NotifiedOnlyAfterInsert
  /\ [][predictions \subseteq predictions']_vars

\* an invocation returned with its row inserted and no notification
\* published: the NOTIFY failed and savePrediction completed
C23_Witness ==
  \E i \in Invocations :
    /\ inv[i].pc = "done"
    /\ inv[i].reported # None
    /\ inv[i].outcome = "completed"
    /\ ~inv[i].persistFailLogged
    /\ inv[i].cycleNo \in predictions
    /\ inv[i].cycleNo \notin notifications

-----------------------------------------------------------------------------
(* risk/riskMap.ts: KucoinClient.fetchRecentTrades.  The call is at one of *)
(*   called    entered, desiredCount not yet checked                       *)
(*   loop      at the test of while (remaining > 0)                        *)
(*   await     await this.fetchBatch(symbol, requestLimit, endAt)          *)
(*   sort      past the loop, before collected.sort                        *)
(*   returned  the promise fulfilled with the sorted trades                *)
(*   thrown    the promise rejected                                        *)

\* KucoinClient.MAX_BATCH_SIZE: 500 in the program
MAX_BATCH_SIZE == 2

\* the largest desiredCount argument
MaxDesired == 3

DesiredCounts == -1..MaxDesired

\* as many sequence ids as the largest desiredCount
SequenceIds == 1..MaxDesired

KucoinTimes == {1, 2}

\* the trades the exchange can return: sequence and time are the fields
\* fetchRecentTrades reads
KucoinTrades == {[sequence |-> s, time |-> t] : s \in SequenceIds, t \in KucoinTimes}

\* the exchange returns at most limit trades per request
Batches(limit) == SeqsUpTo(KucoinTrades, limit)

\* params of fetchBatch: limit: Math.min(limit, MAX_BATCH_SIZE) and
\* ...(endAt ? { endAt } : {}): an undefined or zero endAt is left out
fetchBatchParams(limit, endAt) ==
  [limit |-> Min(limit, MAX_BATCH_SIZE),
   endAt |-> IF endAt # None /\ endAt[1] # 0 THEN endAt ELSE None]

\* every trade of the batch pushed, seen or not
RECURSIVE collectAll(_, _)
collectAll(batch, state) ==
  IF batch = <<>>
    THEN state
    ELSE collectAll(Tail(batch),
           [collected     |-> Append(state.collected, Head(batch)),
            seenSequences |-> state.seenSequences \cup {Head(batch).sequence},
            skipped       |-> state.skipped])

\* for (const trade of batch) if (!seenSequences.has(trade.sequence))
\*   { collected.push(trade); seenSequences.add(trade.sequence); }
RECURSIVE collectUnseen(_, _)
collectUnseen(batch, state) ==
  IF batch = <<>>
    THEN state
    ELSE collectUnseen(Tail(batch),
           IF Head(batch).sequence \in state.seenSequences
             THEN [state EXCEPT !.skipped = TRUE]
             ELSE [collected     |-> Append(state.collected, Head(batch)),
                   seenSequences |-> state.seenSequences \cup {Head(batch).sequence},
                   skipped       |-> state.skipped])

InitFetch ==
  /\ fetch \in {[IdleFetch EXCEPT !.pc = "called", !.desiredCount = d] :
                  d \in DesiredCounts}
  /\ featArgs = <<>>
  /\ featResult = <<>>
  /\ riskArgs = <<>>
  /\ riskResult = <<>>
  /\ trades = <<>>
  /\ intervalMs = 1
  /\ maxBarsArg = None
  /\ aggBars = <<>>
  /\ aggDone = FALSE
  /\ isRunning = FALSE
  /\ cycle = 0
  /\ inv = [i \in Invocations |-> IdleInv]
  /\ nextInv = 0
  /\ repository = FALSE
  /\ config = [featureWindowSize |-> 1, risk |-> defaultConfig]
  /\ store = None
  /\ predictions = {}
  /\ notifications = {}
  /\ HubConstructed

\* if (desiredCount <= 0) throw; collected = [], seenSequences = new Set(),
\* remaining = desiredCount, endAt undefined
CheckDesiredCount ==
  /\ fetch.pc = "called"
  /\ fetch' = IF fetch.desiredCount <= 0
                THEN [fetch EXCEPT !.pc = "thrown",
                                   !.error = "desiredCount must be positive"]
                ELSE [fetch EXCEPT !.pc = "loop",
                                   !.remaining = fetch.desiredCount]
  /\ UNCHANGED <<cycleVars, aggVars, riskVars, featVars, hubVars>>

\* while (remaining > 0): requestLimit = Math.min(remaining, MAX_BATCH_SIZE)
\* and the request of fetchBatch sent; otherwise the loop is left
RequestBatch ==
  /\ fetch.pc = "loop"
  /\ fetch' = IF fetch.remaining > 0
                THEN LET requestLimit == Min(fetch.remaining, MAX_BATCH_SIZE)
                     IN  [fetch EXCEPT
                            !.pc = "await",
                            !.requestLimit = requestLimit,
                            !.request = Some(fetchBatchParams(requestLimit, fetch.endAt))]
                ELSE [fetch EXCEPT !.pc = "sort"]
  /\ UNCHANGED <<cycleVars, aggVars, riskVars, featVars, hubVars>>

\* the body of the loop after fetchBatch returned batch
afterBatch(f, batch) ==
  IF Len(batch) = 0
    THEN [f EXCEPT !.pc = "sort"]
    ELSE LET state == collectUnseen(batch,
                        [collected     |-> f.collected,
                         seenSequences |-> f.seenSequences,
                         skipped       |-> f.skipped])
             remaining == f.desiredCount - Len(state.collected)
         IN  [f EXCEPT
                !.collected = state.collected,
                !.seenSequences = state.seenSequences,
                !.skipped = state.skipped,
                !.remaining = remaining,
                !.pc = IF Len(batch) < f.requestLimit THEN "sort" ELSE "loop",
                !.endAt = IF Len(batch) < f.requestLimit
                            THEN f.endAt
                            ELSE Some(batch[Len(batch)].time - 1)]

\* the request settles with a batch of the exchange
ReceiveBatch ==
  /\ fetch.pc = "await"
  /\ \E batch \in Batches(fetch.request[1].limit) :
       fetch' = afterBatch(fetch, batch)
  /\ UNCHANGED <<cycleVars, aggVars, riskVars, featVars, hubVars>>

\* the request is rejected (timeout, HTTP error): the await throws and
\* fetchRecentTrades rejects with it
RequestFails ==
  /\ fetch.pc = "await"
  /\ fetch' = [fetch EXCEPT !.pc = "thrown", !.error = "request failed"]
  /\ UNCHANGED <<cycleVars, aggVars, riskVars, featVars, hubVars>>

\* return collected.sort((a, b) => a.time - b.time): sorted in place
SortAndReturn ==
  /\ fetch.pc = "sort"
  /\ fetch' = [fetch EXCEPT !.pc = "returned",
                            !.collected = sortByTime(fetch.collected),
                            !.result = Some(sortByTime(fetch.collected))]
  /\ UNCHANGED <<cycleVars, aggVars, riskVars, featVars, hubVars>>

NextFetch ==
  \/ CheckDesiredCount
  \/ RequestBatch
  \/ ReceiveBatch
  \/ RequestFails
  \/ SortAndReturn

SpecFetch == InitFetch /\ [][NextFetch]_vars

\* the event loop runs the continuation of every settled await, and every
\* HTTP request settles (axios is created with a timeout)
FairSpecFetch == InitFetch /\ [][NextFetch]_vars /\ WF_vars(NextFetch)

(* KucoinClient.fetchRecentTrades: properties *)

DistinctSequences(ts) ==
  \A a, b \in 1..Len(ts) : a # b => ts[a].sequence # ts[b].sequence

AscendingByTime(ts) ==
  \A a, b \in 1..Len(ts) : a < b => ts[a].time <= ts[b].time

\* a request has been issued
Requested == fetch.request # None

\* C24: whatever batches the exchange returns (none longer than the limit
\* requested), the trades fetchRecentTrades returns have pairwise distinct
\* sequence ids, are in ascending order of time and are at most desiredCount;
\* a desiredCount <= 0 is rejected with an error before any request is issued.
C24_FetchRecentTrades ==
  /\ fetch.pc = "returned"
       => /\ DistinctSequences(fetch.result[1])
          /\ AscendingByTime(fetch.result[1])
          /\ Len(fetch.result[1]) <= fetch.desiredCount
  /\ fetch.desiredCount <= 0
       => /\ fetch.pc \in {"called", "thrown"}
          /\ ~Requested
          /\ fetch.pc = "thrown" => fetch.error = "desiredCount must be positive"

\* desiredCount trades returned over two requests, at different times, with
\* a trade already seen left out
C24_Witness ==
  /\ fetch.pc = "returned"
  /\ fetch.desiredCount = MaxDesired
  /\ Len(fetch.result[1]) = MaxDesired
  /\ fetch.skipped
  /\ \E a, b \in 1..Len(fetch.result[1]) :
       fetch.result[1][a].time # fetch.result[1][b].time

\* a desiredCount <= 0 rejected
C24_WitnessRejected ==
  /\ fetch.pc = "thrown"
  /\ fetch.desiredCount <= 0

Terminated == fetch.pc \in {"returned", "thrown"}

\* C25: the pagination loop terminates whatever the exchange returns, as
\* long as every request settles: fetchRecentTrades eventually returns or
\* throws.
C25_Terminates == <>Terminated

\* a full batch of trades already seen has been received with trades still
\* wanted: the next request asks for the same number of trades again
FullBatchOfSeenTrades ==
  /\ fetch.pc = "loop"
  /\ fetch.skipped
  /\ fetch.remaining > 0
  /\ Len(fetch.collected) > 0

-----------------------------------------------------------------------------
(* tradingEngine.ts: the model store across cycles *)

\* runTradingCycle returned defaultDecision from one of its early returns
ShortCircuited(rec) == rec.result # None /\ rec.computed = None

\* runTradingCycle returned the decision it computed
ReturnedDecision(rec) == rec.result # None /\ rec.computed # None

\* nothing of the model path has been run by the invocation
NoModelWork(rec) ==
  /\ rec.model = None
  /\ ~rec.loadedFromDisk
  /\ ~rec.loadFailed
  /\ rec.trainedSamples = 0
  /\ rec.trainedOn = <<>>
  /\ ~rec.saveAttempted
  /\ ~rec.saved

\* the store is written only by the save step of an invocation that computed
\* a decision, and no other invocation is inside a cycle at that moment
StoreWrittenOnlyBySave ==
  store' # store
    => \E i \in Invocations :
         /\ inv[i].pc = "save"
         /\ inv[i].computed # None
         /\ \A j \in Invocations \ {i} : ~Running(j)

\* C28: a cycle that short-circuits to the neutral decision neither loads,
\* builds, trains nor saves a model, and no step taken while it runs writes
\* the store: the stored model after the cycle is the one before it.
C28_NeutralCycleLeavesStore ==
  /\ [](\A i \in Invocations :
          /\ ShortCircuited(inv[i]) => NoModelWork(inv[i])
          /\ inv[i].pc \in {"logStart", "fetch"} => NoModelWork(inv[i]))
  /\ [][/\ StoreWrittenOnlyBySave
        /\ \A i \in Invocations :
             (inv[i].pc = "fetch" /\ ShortCircuited(inv'[i])) => store' = store]_vars

\* a second cycle short-circuited and returned with a model in the store
C28_Witness ==
  \E i \in Invocations :
    /\ inv[i].pc = "done"
    /\ inv[i].cycleNo >= 2
    /\ ShortCircuited(inv[i])
    /\ inv[i].result[1] = defaultDecision(Len(inv[i].bars))
    /\ store # None

\* C29 as stated: once a non-neutral cycle has returned its decision the
\* store holds a model of that cycle's shape, and a cycle that finds a model
\* of its own shape in the store reuses it.
C29_StoredModelReused ==
  \A i \in Invocations :
    /\ ReturnedDecision(inv[i]) => store = <<CurrentShape>>
    /\ (inv[i].pc \in {"train", "predict", "save"} /\ store = <<CurrentShape>>)
         => (inv[i].loadedFromDisk /\ inv[i].model = store)

\* what a cycle does with the store it finds, and what it leaves there
StoreFollowsShape ==
  \A i \in Invocations :
    /\ ReturnedDecision(inv[i])
         => /\ store = <<CurrentShape>>
            /\ inv[i].model = store
            /\ ~inv[i].loadedFromDisk => inv[i].saved
    /\ inv[i].pc \in {"train", "predict", "save"}
         => /\ (store = <<CurrentShape>> /\ ~inv[i].loadFailed)
                 => (inv[i].loadedFromDisk /\ inv[i].model = store)
            /\ (store # <<CurrentShape>> \/ inv[i].loadFailed)
                 => (~inv[i].loadedFromDisk /\ inv[i].model = <<CurrentShape>>)

\* C29: once a non-neutral cycle has returned its decision the store holds a
\* model of that cycle's (windowSize, featureCount), and keeps it through
\* every later cycle of the same shape; a cycle that finds a model of its own
\* shape reuses it if the model loads; one that finds another shape, or whose
\* load fails, builds a fresh model and has overwritten the store when it
\* returns.
C29_StoredModelShape ==
  /\ []StoreFollowsShape
  /\ [][store = <<CurrentShape>> => store' = store]_vars

\* a second cycle found the model of its shape, reused it and returned
C29_Witness ==
  \E i \in Invocations :
    /\ inv[i].cycleNo >= 2
    /\ ReturnedDecision(inv[i])
    /\ inv[i].loadedFromDisk
    /\ inv[i].model = store
    /\ store = <<CurrentShape>>

\* a model of another shape was in the store; the cycle rebuilt and overwrote
\* it
C29_WitnessOverwritten ==
  \E i \in Invocations :
    /\ ReturnedDecision(inv[i])
    /\ ~inv[i].loadedFromDisk
    /\ ~inv[i].loadFailed
    /\ inv[i].saved
    /\ store = <<CurrentShape>>

\* the stored model had the cycle's shape and did not load
MatchingModelNotLoaded ==
  \E i \in Invocations :
    /\ inv[i].pc \in {"train", "predict", "save"}
    /\ store = <<CurrentShape>>
    /\ inv[i].loadFailed
    /\ ~inv[i].loadedFromDisk

-----------------------------------------------------------------------------
(* data/barBuilder.ts: conservation of the trades by the aggregation *)

\* the sum of amount[k] over the positions k of S
RECURSIVE SumAt(_, _)
SumAt(S, amount) ==
  IF S = {}
    THEN 0
    ELSE LET k == CHOOSE x \in S : TRUE
         IN amount[k] + SumAt(S \ {k}, amount)

Sizes == [k \in 1..Len(trades) |-> trades[k].size]

SizesOf(side) ==
  [k \in 1..Len(trades) |-> IF trades[k].side = side THEN trades[k].size ELSE 0]

Notionals == [k \in 1..Len(trades) |-> trades[k].price * trades[k].size]

TradeCounts == [a \in 1..Len(aggBars) |-> aggBars[a].tradeCount]

\* the tradeCounts of the bars add up to the number of input trades
CountsAddUp ==
  (aggDone /\ maxBarsArg = None)
    => SumAt(1..Len(aggBars), TradeCounts) = Len(trades)

\* every bar carries the exact sums over the trades of its bucket
ExactSums ==
  aggDone
    => \A a \in 1..Len(aggBars) :
         LET bar == aggBars[a]
             within == TradesIn(bar.startTime)
         IN /\ bar.tradeCount = Cardinality(within)
            /\ bar.volume = SumAt(within, Sizes)
            /\ bar.notional = SumAt(within, Notionals)
            /\ bar.volume = bar.buyVolume + bar.sellVolume

\* every bar carries the sums over the trades of its bucket, each rounded to
\* 8 decimals on its own
RoundedSums ==
  aggDone
    => \A a \in 1..Len(aggBars) :
         LET bar == aggBars[a]
             within == TradesIn(bar.startTime)
             unit == 10 ^ (SIZE_DECIMALS - ROUND_DECIMALS)
         IN /\ bar.tradeCount = Cardinality(within)
            /\ bar.volume = roundTo(SumAt(within, Sizes), ROUND_DECIMALS)
            /\ bar.buyVolume = roundTo(SumAt(within, SizesOf("buy")), ROUND_DECIMALS)
            /\ bar.sellVolume = roundTo(SumAt(within, SizesOf("sell")), ROUND_DECIMALS)
            /\ bar.notional = roundTo(SumAt(within, Notionals), ROUND_DECIMALS)
            /\ SumAt(within, Sizes)
                 = SumAt(within, SizesOf("buy")) + SumAt(within, SizesOf("sell"))
            /\ bar.volume - (bar.buyVolume + bar.sellVolume) \in {-unit, 0, unit}
            /\ 2 * (bar.volume - SumAt(within, Sizes)) \in -unit..unit
            /\ 2 * (bar.notional - SumAt(within, Notionals)) \in -unit..unit

\* C30 as stated: every bar has tradeCount = the number of trades of its
\* bucket, volume = the sum of their sizes, notional = the sum of price*size
\* and volume = buyVolume + sellVolume; without maxBars the tradeCounts add up
\* to the number of input trades; the input sequence is not modified.
C30_TradesConserved ==
  /\ [](ExactSums /\ CountsAddUp)
  /\ [][trades' = trades]_vars

\* C30: every bar has tradeCount = the number of trades of its bucket, and
\* volume, buyVolume, sellVolume and notional are the sums over those trades
\* (sizes, sizes by side, price*size), each rounded to 8 decimals: they are
\* within 5e-9 of the sums, and volume is within 1e-8 of buyVolume +
\* sellVolume; without maxBars the tradeCounts add up to the number of input
\* trades; the input sequence is not modified.
C30_TradesConservedRounded ==
  /\ [](RoundedSums /\ CountsAddUp)
  /\ [][trades' = trades]_vars

\* three unsorted trades in two bars, no maxBars; one bar holds a buy and a
\* sell whose sizes are not multiples of 1e-8: its volume is their sum, and
\* is not buyVolume + sellVolume, which are rounded one by one
C30_Witness ==
  /\ aggDone
  /\ maxBarsArg = None
  /\ Len(trades) = 3
  /\ trades # sortByTime(trades)
  /\ Len(aggBars) = 2
  /\ \E a \in 1..Len(aggBars) :
       /\ aggBars[a].tradeCount = 2
       /\ aggBars[a].buyVolume > 0
       /\ aggBars[a].sellVolume > 0
       /\ aggBars[a].volume = SumAt(TradesIn(aggBars[a].startTime), Sizes)
       /\ aggBars[a].volume # aggBars[a].buyVolume + aggBars[a].sellVolume

-----------------------------------------------------------------------------
(* api/internal/hub: hub.go (Hub) and ws_client.go (WSClient), with the    *)
(* callers of the server: HandleWS, listenForNotifications, Close.         *)
(*                                                                         *)
(* A step is a channel operation or a critical section of a mutex: the     *)
(* sections of WSClient.mu exclude one another, and so do those of Hub.mu  *)
(* that write the client map.  HandleWS and Run of one client are one      *)
(* thread of control (Run is started when Register has returned):          *)
(*   none           no connection yet                                      *)
(*   start          registered; Run entered                                *)
(*   read           at the head of the read loop, c.conn not yet read      *)
(*   reading        inside ReadMessage                                     *)
(*   ping           an application ping was read                           *)
(*   closing        returning: the deferred c.Close() is next              *)
(*   unregistering  in onClose, blocked in h.unregister <- client          *)
(*   done           Run returned                                           *)
(*   panicked       nil pointer dereference: the process is gone           *)
(* The clients are interchangeable; they connect in the order of their     *)
(* numbers.                                                                *)

\* Hub.Broadcast calls made by the notification listener
MaxPayloads == 2

\* capacity of Hub.broadcast: 32 in the program
BROADCAST_CAPACITY == 2

\* `go c.Close()` goroutines that are pending at one time
MaxClosers == 1

\* c.Close() with the sync.Once taken away: the body runs on every call
CloseWithoutOnce(st) ==
  [st EXCEPT !.once = TRUE,
             !.doneClosed = @ + 1,
             !.connCloses = IF st.conn = "open" THEN @ + 1 ELSE @,
             !.conn = IF st.conn = "open" THEN "nil" ELSE @]

\* c.Close(): closeOnce.Do(close(c.done); under c.mu, if c.conn != nil:
\* WriteControl(close), c.conn.Close(), c.conn = nil)
Close(st) ==
  IF st.once
    THEN st
    ELSE [st EXCEPT !.once = TRUE,
                    !.doneClosed = @ + 1,
                    !.connCloses = IF st.conn = "open" THEN @ + 1 ELSE @,
                    !.conn = IF st.conn = "open" THEN "nil" ELSE @]

\* c.Send(msg): under c.mu; nothing if c.conn == nil; a failed
\* SetWriteDeadline or WriteMessage starts `go c.Close()`
Send(st, payload, fails) ==
  IF st.conn # "open"
    THEN st
    ELSE IF fails
           THEN [st EXCEPT !.closers = @ + 1]
           ELSE [st EXCEPT !.received = Append(@, payload)]

InitHub ==
  /\ HubConstructed
  /\ fetch = IdleFetch
  /\ featArgs = <<>>
  /\ featResult = <<>>
  /\ riskArgs = <<>>
  /\ riskResult = <<>>
  /\ trades = <<>>
  /\ intervalMs = 1
  /\ maxBarsArg = None
  /\ aggBars = <<>>
  /\ aggDone = FALSE
  /\ isRunning = FALSE
  /\ cycle = 0
  /\ inv = [i \in Invocations |-> IdleInv]
  /\ nextInv = 0
  /\ repository = FALSE
  /\ config = [featureWindowSize |-> 1, risk |-> defaultConfig]
  /\ store = None
  /\ predictions = {}
  /\ notifications = {}

NotHub == <<cycleVars, aggVars, riskVars, featVars, fetchVars>>

\* a nil pointer dereference in a goroutine ends the process: nothing runs
\* after it
ProcessRunning == \A c \in Clients : client[c].run # "panicked"

\* HandleWS: Upgrade, NewWSClient(conn), s.hub.Register(client); the hub
\* loop takes the client from h.register (an unbuffered channel: one step
\* for both sides) and adds it to the map; HandleWS goes on to
\* `go client.Run(...)`
HandleWS(c) ==
  /\ ProcessRunning
  /\ client[c].run = "none"
  /\ \A b \in Clients : b < c => client[b].run # "none"
  /\ client' = [client EXCEPT ![c] = [@ EXCEPT !.conn = "open", !.run = "start"]]
  /\ hubClients' = hubClients \cup {c}
  /\ UNCHANGED <<broadcastCh, nextPayload, shutdown, NotHub>>

\* listenForNotifications: s.hub.Broadcast(payload); blocks while the
\* channel is full
Broadcast ==
  /\ ProcessRunning
  /\ nextPayload < MaxPayloads
  /\ Len(broadcastCh) < BROADCAST_CAPACITY
  /\ nextPayload' = nextPayload + 1
  /\ broadcastCh' = Append(broadcastCh, nextPayload + 1)
  /\ UNCHANGED <<client, hubClients, shutdown, NotHub>>

\* the `go c.Close()` goroutines of these clients that have not run yet
RECURSIVE PendingClosers(_)
PendingClosers(cs) ==
  IF cs = {}
    THEN 0
    ELSE LET c == CHOOSE x \in cs : TRUE
         IN client[c].closers + PendingClosers(cs \ {c})

\* the sets of clients whose write may fail in this round
MayFail ==
  {failed \in SUBSET {c \in hubClients : client[c].conn = "open"} :
     PendingClosers(Clients) + Cardinality(failed) <= MaxClosers}

\* a hub loop that takes the newest payload of the channel first
HubBroadcastNewestFirst ==
  /\ ProcessRunning
  /\ broadcastCh # <<>>
  /\ broadcastCh' = SubSeq(broadcastCh, 1, Len(broadcastCh) - 1)
  /\ \E failed \in MayFail :
       client' = [c \in Clients |->
                    IF c \in hubClients
                      THEN Send(client[c], broadcastCh[Len(broadcastCh)], c \in failed)
                      ELSE client[c]]
  /\ UNCHANGED <<hubClients, nextPayload, shutdown, NotHub>>

\* Hub.run, case msg := <-h.broadcast: under h.mu.RLock, c.Send(msg) for
\* every client of the map
HubBroadcast ==
  /\ ProcessRunning
  /\ broadcastCh # <<>>
  /\ broadcastCh' = Tail(broadcastCh)
  /\ \E failed \in MayFail :
       client' = [c \in Clients |->
                    IF c \in hubClients
                      THEN Send(client[c], Head(broadcastCh), c \in failed)
                      ELSE client[c]]
  /\ UNCHANGED <<hubClients, nextPayload, shutdown, NotHub>>

\* Run, 237-255: under c.mu; a nil connection goes straight to onClose;
\* otherwise the read limit, deadline and pong handler are set and
\* keepAlive is started
RunStart(c) ==
  /\ ProcessRunning
  /\ client[c].run = "start"
  /\ client' = [client EXCEPT ![c] =
                  IF @.conn = "nil"
                    THEN [@ EXCEPT !.run = "unregistering"]
                    ELSE [@ EXCEPT !.run = "read", !.keepAlive = TRUE]]
  /\ UNCHANGED <<hubClients, broadcastCh, nextPayload, shutdown, NotHub>>

\* An access to c.conn outside c.mu that runs after Close has set the field
\* to nil races with that write: it meets nil (a nil pointer dereference) or
\* the pointer it held before (a connection that is already closed).
UnlockedOutcomes(st, next) ==
  IF st.conn = "nil" THEN {"panicked", next} ELSE {next}

\* Run, 265: c.conn.ReadMessage() -- c.conn is read without the mutex
RunRead(c) ==
  /\ ProcessRunning
  /\ client[c].run = "read"
  /\ \E next \in UnlockedOutcomes(client[c], "reading") :
       client' = [client EXCEPT ![c] = [@ EXCEPT !.run = next]]
  /\ UNCHANGED <<hubClients, broadcastCh, nextPayload, shutdown, NotHub>>

\* ReadMessage returns: an error (the peer went away, the deadline passed,
\* the connection was closed), an application ping, or another message
RunReceive(c) ==
  /\ ProcessRunning
  /\ client[c].run = "reading"
  /\ \E next \in {"closing", "ping", "read"} :
       client' = [client EXCEPT ![c] = [@ EXCEPT !.run = next]]
  /\ UNCHANGED <<hubClients, broadcastCh, nextPayload, shutdown, NotHub>>

\* the pong handler, 248-252, called inside ReadMessage when a pong frame
\* arrives: c.conn.RemoteAddr() and c.conn.SetReadDeadline without the
\* mutex; on a closed connection SetReadDeadline fails and so does the read
PongHandler(c) ==
  /\ ProcessRunning
  /\ client[c].run = "reading"
  /\ client[c].conn = "nil"
  /\ \E next \in UnlockedOutcomes(client[c], "closing") :
       client' = [client EXCEPT ![c] = [@ EXCEPT !.run = next]]
  /\ UNCHANGED <<hubClients, broadcastCh, nextPayload, shutdown, NotHub>>

\* Run, 283-301: c.conn.RemoteAddr() without the mutex; then under c.mu, if
\* c.conn != nil, the pong is written; a failed write starts `go c.Close()`
\* and returns
RunPing(c) ==
  /\ ProcessRunning
  /\ client[c].run = "ping"
  /\ \/ \E next \in UnlockedOutcomes(client[c], "read") :
          client' = [client EXCEPT ![c] = [@ EXCEPT !.run = next]]
     \/ /\ client[c].conn = "open"
        /\ PendingClosers(Clients) < MaxClosers
        /\ client' = [client EXCEPT ![c] = [@ EXCEPT !.closers = @ + 1,
                                                     !.run = "closing"]]
  /\ UNCHANGED <<hubClients, broadcastCh, nextPayload, shutdown, NotHub>>

\* Run's deferred function: c.Close(), then onClose() = s.hub.Unregister
RunDeferredClose(c) ==
  /\ ProcessRunning
  /\ client[c].run = "closing"
  /\ client' = [client EXCEPT ![c] = [Close(@) EXCEPT !.run = "unregistering"]]
  /\ UNCHANGED <<hubClients, broadcastCh, nextPayload, shutdown, NotHub>>

\* Hub.run, case client := <-h.unregister: removeClient deletes the client
\* and closes it if it is in the map
HubUnregister(c) ==
  /\ ProcessRunning
  /\ client[c].run = "unregistering"
  /\ hubClients' = hubClients \ {c}
  /\ client' = [client EXCEPT ![c] =
                  [(IF c \in hubClients THEN Close(@) ELSE @) EXCEPT !.run = "done"]]
  /\ UNCHANGED <<broadcastCh, nextPayload, shutdown, NotHub>>

\* keepAlive, case <-ticker.C: under c.mu; returns on a nil connection;
\* writes a ping; a failed deadline or write starts `go c.Close()`
KeepAliveTick(c) ==
  /\ ProcessRunning
  /\ client[c].keepAlive
  /\ \/ /\ client[c].conn # "open"
        /\ client' = [client EXCEPT ![c] = [@ EXCEPT !.keepAlive = FALSE,
                                                     !.pings = 0]]
     \/ /\ client[c].conn = "open"
        /\ client' = [client EXCEPT ![c] = [@ EXCEPT !.pings = (@ + 1) % 2]]
     \/ /\ client[c].conn = "open"
        /\ PendingClosers(Clients) < MaxClosers
        /\ client' = [client EXCEPT ![c] = [@ EXCEPT !.closers = @ + 1,
                                                     !.keepAlive = FALSE,
                                                     !.pings = 0]]
  /\ UNCHANGED <<hubClients, broadcastCh, nextPayload, shutdown, NotHub>>

\* keepAlive, case <-c.done
KeepAliveDone(c) ==
  /\ ProcessRunning
  /\ client[c].keepAlive
  /\ client[c].doneClosed > 0
  /\ client' = [client EXCEPT ![c] = [@ EXCEPT !.keepAlive = FALSE,
                                               !.pings = 0]]
  /\ UNCHANGED <<hubClients, broadcastCh, nextPayload, shutdown, NotHub>>

\* a goroutine started by `go c.Close()` runs
AsyncClose(c) ==
  /\ ProcessRunning
  /\ client[c].closers > 0
  /\ client' = [client EXCEPT ![c] = [Close(@) EXCEPT !.closers = @ - 1]]
  /\ UNCHANGED <<hubClients, broadcastCh, nextPayload, shutdown, NotHub>>

\* Hub.Shutdown (called by Server.Close): under h.mu, every client of the
\* map is closed and deleted; the hub loop goes on running
Shutdown ==
  /\ ProcessRunning
  /\ ~shutdown
  /\ shutdown' = TRUE
  /\ client' = [c \in Clients |->
                  IF c \in hubClients THEN Close(client[c]) ELSE client[c]]
  /\ hubClients' = {}
  /\ UNCHANGED <<broadcastCh, nextPayload, NotHub>>

NextHub ==
  \/ Broadcast
  \/ HubBroadcast
  \/ Shutdown
  \/ \E c \in Clients :
       \/ HandleWS(c)
       \/ RunStart(c)
       \/ RunRead(c)
       \/ RunReceive(c)
       \/ PongHandler(c)
       \/ RunPing(c)
       \/ RunDeferredClose(c)
       \/ HubUnregister(c)
       \/ KeepAliveTick(c)
       \/ KeepAliveDone(c)
       \/ AsyncClose(c)

SpecHub == InitHub /\ [][NextHub]_vars

(* Hub and WSClient: properties *)

\* the hub loop takes a payload from the broadcast channel in this step
Processing == Len(broadcastCh') < Len(broadcastCh)

\* the payload is written to the client's connection in this step
Written(c, payload) ==
  client'[c].received = Append(client[c].received, payload)

\* nothing is written to the client's connection by Send in this step
NothingWritten(c) == client'[c].received = client[c].received

\* the write failed and `go c.Close()` was started
WriteFailed(c) ==
  /\ NothingWritten(c)
  /\ client'[c].closers = client[c].closers + 1

\* payloads are numbered in the order of the Broadcast calls
InBroadcastOrder(payloads) ==
  \A a, b \in 1..Len(payloads) : a < b => payloads[a] < payloads[b]

\* C22: the hub loop takes the payloads in the order they were passed to
\* Broadcast and calls Send with each for every client that is in the map at
\* that moment: the payload is written to each of them whose connection is
\* still open, unless the write fails; every client is written the payloads
\* in broadcast order; a client that is not in the map (never registered, or
\* unregistered) is written nothing.
C22_BroadcastToRegistered ==
  /\ [][/\ Processing
             => /\ broadcastCh' = Tail(broadcastCh)
                /\ \A c \in hubClients :
                     IF client[c].conn = "open"
                       THEN Written(c, Head(broadcastCh)) \/ WriteFailed(c)
                       ELSE NothingWritten(c)
        /\ \A c \in Clients \ hubClients : NothingWritten(c)]_vars
  /\ [](\A c \in Clients : InBroadcastOrder(client[c].received))

\* both payloads were written to one client; the other was unregistered
\* after the first and got only that
C22_Witness ==
  \E c, d \in Clients :
    /\ client[c].received = <<1, 2>>
    /\ c \in hubClients
    /\ client[d].received = <<1>>
    /\ client[d].run = "done"
    /\ d \notin hubClients
    /\ ~shutdown

\* keepAlive writes a ping frame to the client's connection in this step
PingWritten(c) ==
  /\ client'[c].keepAlive
  /\ client'[c].pings # client[c].pings

\* C26: the done channel and the connection of a client are each closed at
\* most once, and exactly once as soon as one call of Close has completed,
\* whichever of removeClient, Shutdown, Run's deferred call and the `go
\* c.Close()` goroutines call it and in whatever order; once Close has
\* completed Send writes nothing to the client and keepAlive writes no ping.
C26_CloseIdempotent ==
  /\ [](\A c \in Clients :
          /\ client[c].doneClosed <= 1
          /\ client[c].connCloses <= 1
          /\ client[c].once
               => /\ client[c].doneClosed = 1
                  /\ client[c].connCloses = 1
                  /\ client[c].conn = "nil"
          /\ ~client[c].once
               => /\ client[c].doneClosed = 0
                  /\ client[c].connCloses = 0)
  /\ [][\A c \in Clients :
          client[c].once
            => /\ NothingWritten(c)
               /\ ~PingWritten(c)]_vars

\* a client was closed by Shutdown after a payload and a ping were written;
\* Run's deferred Close has been through, a `go c.Close()` is still to run
\* and removeClient is still to come, with a payload waiting in the channel
C26_Witness ==
  \E c \in Clients :
    /\ client[c].once
    /\ shutdown
    /\ client[c].run = "unregistering"
    /\ client[c].closers > 0
    /\ client[c].received # <<>>
    /\ client[c].pings = 1
    /\ c \notin hubClients
    /\ broadcastCh # <<>>

\* Run reads c.conn outside the mutex in this step
UnlockedRead(c) ==
  \/ client[c].run = "read" /\ client'[c].run # "read"
  \/ client[c].run = "ping" /\ client'[c].run \in {"read", "panicked"}

\* C27: Run never reads the connection field after Close has set it to nil:
\* no read of c.conn outside the mutex happens with the field nil, and Run
\* never dereferences a nil connection.
C27_NoUseAfterClose ==
  /\ [](\A c \in Clients : client[c].run # "panicked")
  /\ [][\A c \in Clients : client[c].conn = "nil" => ~UnlockedRead(c)]_vars

\* Run dereferenced the nil connection
NilConnectionDereferenced ==
  \E c \in Clients : client[c].run = "panicked"

====
